---- MODULE Spec2Model ----
(***************************************************************************)
(* Alternative Critical Damage (pf2e-maximized-crit), module v1.1.8.       *)
(*                                                                         *)
(* The model follows src/unnamed/part_001, the version of the module that  *)
(* holds the capture cache (lastDamageRollData), the cache / direct /      *)
(* legacy tiers and the formula synthesizers.                              *)
(*                                                                         *)
(* A damage formula is a JavaScript string built with template literals.   *)
(* It is modelled as the sequence of its lexical tokens, so that the       *)
(* shape of the rendered text (parentheses, "+", "[tag]", "{", ",", "}")   *)
(* is kept, and the host's dice engine is modelled by MaxOf / MinOf over   *)
(* those tokens.                                                           *)
(*                                                                         *)
(* JavaScript values are modelled as follows:                              *)
(*   - a number that the code only tests for truthiness or adds up is an   *)
(*     integer, with 0 standing also for undefined / null (every guard of  *)
(*     the code on such a field, `x`, `x !== undefined`, `x || 0`, gives   *)
(*     the same sum for 0 and for an absent field);                        *)
(*   - a string that may be absent is a string, "" standing for absent     *)
(*     (falsy as well);                                                    *)
(*   - a die string is "d4", "d6", ...; `die.split("d")[1]` and            *)
(*     `parseInt(dieSize.replace("d", ""))` are the lookup DieTable.       *)
(***************************************************************************)
EXTENDS Integers, Sequences, FiniteSets, TLC

(***************************************************************************)
(* Tokens of a rendered formula.                                           *)
(***************************************************************************)
Sym(x) == [k |-> "sym", n |-> 0, s |-> 0, t |-> x]
Num(v) == [k |-> "num", n |-> v, s |-> 0, t |-> ""]
Dice(c, f) == [k |-> "dice", n |-> c, s |-> f, t |-> ""]
Tag(x) == [k |-> "tag", n |-> 0, s |-> 0, t |-> x]

RECURSIVE SumSeq(_)
SumSeq(q) == IF q = <<>> THEN 0 ELSE Head(q) + SumSeq(Tail(q))

\* The largest value the host's dice engine can return for a formula whose
\* operators are all "+": every die shows its number of faces.
MaxOf(f) ==
    SumSeq([i \in 1..Len(f) |->
        IF f[i].k = "dice" THEN f[i].n * f[i].s
        ELSE IF f[i].k = "num" THEN f[i].n ELSE 0])

\* The smallest value: every die shows 1.
MinOf(f) ==
    SumSeq([i \in 1..Len(f) |->
        IF f[i].k = "dice" THEN f[i].n
        ELSE IF f[i].k = "num" THEN f[i].n ELSE 0])

\* The number of dice a formula rolls.
DiceOf(f) ==
    SumSeq([i \in 1..Len(f) |-> IF f[i].k = "dice" THEN f[i].n ELSE 0])

\* The sum of the flat (numeric) terms of a formula.
FlatOf(f) ==
    SumSeq([i \in 1..Len(f) |-> IF f[i].k = "num" THEN f[i].n ELSE 0])

\* Array.prototype.join(",") on rendered parts.
RECURSIVE JoinComma(_)
JoinComma(parts) ==
    IF parts = <<>> THEN <<>>
    ELSE IF Len(parts) = 1 THEN parts[1]
    ELSE parts[1] \o <<Sym(",")>> \o JoinComma(Tail(parts))

\* String.prototype.split(","): the pieces between the "," tokens.
RECURSIVE SplitComma(_)
SplitComma(f) ==
    IF \A i \in 1..Len(f) : f[i] # Sym(",") THEN <<f>>
    ELSE LET p == CHOOSE i \in 1..Len(f) :
                      /\ f[i] = Sym(",")
                      /\ \A j \in 1..(i - 1) : f[j] # Sym(",")
         IN  <<SubSeq(f, 1, p - 1)>> \o SplitComma(SubSeq(f, p + 1, Len(f)))

(***************************************************************************)
(* Die strings.                                                            *)
(***************************************************************************)
DieStrings == {"d4", "d6", "d8", "d10", "d12"}

\* damage.die.split("d")[1] and parseInt(dieSize.replace("d", "")): the
\* digits after the "d", as a number; 0 (falsy) for an absent die string.
DieTable(die) ==
    CASE die = "d4" -> 4
      [] die = "d6" -> 6
      [] die = "d8" -> 8
      [] die = "d10" -> 10
      [] die = "d12" -> 12
      [] OTHER -> 0

(***************************************************************************)
(* createDamageFormula / createStandardDamageFormula (flat synthesizer).   *)
(* num, die, mod are numbers (die: 0 when null), damageType and category   *)
(* are strings ("" when absent).                                           *)
(***************************************************************************)
\* `[${damageType}]`, or `[untyped]` for a falsy damage type.
TypeTag(damageType) ==
    IF damageType # "" THEN <<Tag(damageType)>> ELSE <<Tag("untyped")>>

\* A category group with one pair of parentheses.
CategoryWrap_Single(formula, category) ==
    IF category # ""
    THEN <<Sym("(")>> \o formula \o <<Tag(category), Sym(")")>>
    ELSE formula

\* `((${formula})[${category}])` when category !== "".
CategoryWrap(formula, category) ==
    IF category # ""
    THEN <<Sym("("), Sym("(")>> \o formula
            \o <<Sym(")"), Tag(category), Sym(")")>>
    ELSE formula

\* A synthesizer whose bonus is the maximum of one die only.
createDamageFormula_OneDieBonus(num, die, mod, damageType, category) ==
    LET dicePart ==
            IF num # 0 /\ die # 0
            THEN <<Sym("("), Dice(num, die), Sym("+"), Num(die),
                   Sym("+"), Num(mod), Sym(")")>>
            ELSE IF mod # 0 THEN <<Num(mod)>>
            ELSE <<>>
    IN  CategoryWrap(dicePart, category) \o TypeTag(damageType)

createDamageFormula(num, die, mod, damageType, category) ==
    LET dicePart ==
            IF num # 0 /\ die # 0
            THEN <<Sym("("), Dice(num, die), Sym("+"), Num(num * die),
                   Sym("+"), Num(mod), Sym(")")>>
            ELSE IF mod # 0 THEN <<Num(mod)>>
            ELSE <<>>
    IN  CategoryWrap(dicePart, category) \o TypeTag(damageType)

createStandardDamageFormula(num, die, mod, damageType, category) ==
    LET dicePart ==
            IF num # 0 /\ die # 0
            THEN <<Sym("("), Dice(num, die), Sym("+"), Num(mod), Sym(")")>>
            ELSE IF mod # 0 THEN <<Num(mod)>>
            ELSE <<>>
    IN  CategoryWrap(dicePart, category) \o TypeTag(damageType)

(***************************************************************************)
(* createAlternativeCriticalFormula (rich synthesizer).                    *)
(*                                                                         *)
(* damageData = [base, modifiers, dice]:                                   *)
(*   base[i]      = [diceNumber, dieSize, modifier, damageType, category]  *)
(*   modifiers[i] = [enabled, ignored, modifier, damageCategory,           *)
(*                   damageType]                                           *)
(*   dice[i]      = [enabled, ignored, critical, diceNumber, dieSize,      *)
(*                   damageType, category]                                 *)
(***************************************************************************)
\* The concatenation of a sequence of sequences.
RECURSIVE Flatten(_)
Flatten(qq) == IF qq = <<>> THEN <<>> ELSE Head(qq) \o Flatten(Tail(qq))

\* `[${damageType || 'untyped'}]`
TypeTagOr(damageType) ==
    <<Tag(IF damageType # "" THEN damageType ELSE "untyped")>>

\* One base entry: <<part>>, or <<>> when the entry has no dice.
baseFormulaParts(baseDamage, isCriticalHit) ==
    IF baseDamage.diceNumber # 0 /\ baseDamage.dieSize # ""
    THEN LET dieValue == DieTable(baseDamage.dieSize)
             mod == IF baseDamage.modifier # 0
                    THEN <<Sym("+"), Num(baseDamage.modifier)>>
                    ELSE <<>>
             dice == Dice(baseDamage.diceNumber, DieTable(baseDamage.dieSize))
         IN  IF isCriticalHit
             THEN << <<Sym("("), dice, Sym("+"),
                       Num(baseDamage.diceNumber * dieValue)>>
                     \o mod \o <<Sym(")")>>
                     \o TypeTagOr(baseDamage.damageType) >>
             ELSE << <<Sym("("), dice>> \o mod \o <<Sym(")")>>
                     \o TypeTagOr(baseDamage.damageType) >>
    ELSE <<>>

\* A modifiers entry that is rendered even when it is ignored.
modifierFormulaParts_Ignored(modifierData, isCriticalHit, doubleStatic) ==
    IF modifierData.enabled /\ modifierData.modifier # 0
    THEN LET modifierValue ==
                 IF isCriticalHit /\ doubleStatic
                 THEN modifierData.modifier * 2
                 ELSE modifierData.modifier
             inner ==
                 IF modifierData.damageCategory # ""
                 THEN <<Sym("("), Num(modifierValue),
                        Tag(modifierData.damageCategory), Sym(")")>>
                 ELSE <<Num(modifierValue)>>
         IN  << inner \o TypeTag(modifierData.damageType) >>
    ELSE <<>>

\* A modifiers entry whose value is never doubled.
modifierFormulaParts_NeverDoubled(modifierData, isCriticalHit, doubleStatic) ==
    IF modifierData.enabled /\ ~modifierData.ignored
          /\ modifierData.modifier # 0
    THEN LET inner ==
                 IF modifierData.damageCategory # ""
                 THEN <<Sym("("), Num(modifierData.modifier),
                        Tag(modifierData.damageCategory), Sym(")")>>
                 ELSE <<Num(modifierData.modifier)>>
         IN  << inner \o TypeTag(modifierData.damageType) >>
    ELSE <<>>

\* One modifiers entry.
modifierFormulaParts(modifierData, isCriticalHit, doubleStatic) ==
    IF modifierData.enabled /\ ~modifierData.ignored
          /\ modifierData.modifier # 0
    THEN LET modifierValue ==
                 IF isCriticalHit /\ doubleStatic
                 THEN modifierData.modifier * 2
                 ELSE modifierData.modifier
             inner ==
                 IF modifierData.damageCategory # ""
                 THEN <<Sym("("), Num(modifierValue),
                        Tag(modifierData.damageCategory), Sym(")")>>
                 ELSE <<Num(modifierValue)>>
         IN  << inner \o TypeTag(modifierData.damageType) >>
    ELSE <<>>

\* Additional dice that get a maximum-value bonus of their own.
diceFormulaParts_WithBonus(diceData, isCriticalHit) ==
    IF /\ diceData.enabled /\ ~diceData.ignored
       /\ diceData.critical /\ isCriticalHit
       /\ diceData.diceNumber # 0 /\ diceData.dieSize # ""
    THEN << <<Sym("("),
              Dice(diceData.diceNumber, DieTable(diceData.dieSize)),
              Sym("+"),
              Num(diceData.diceNumber * DieTable(diceData.dieSize)),
              Sym(")")>>
            \o TypeTagOr(diceData.damageType) >>
    ELSE <<>>

\* One additional-dice entry.
diceFormulaParts(diceData, isCriticalHit) ==
    IF /\ diceData.enabled /\ ~diceData.ignored
       /\ diceData.critical /\ isCriticalHit
       /\ diceData.diceNumber # 0 /\ diceData.dieSize # ""
    THEN LET dice == <<Sym("("),
                       Dice(diceData.diceNumber, DieTable(diceData.dieSize)),
                       Sym(")")>>
             inner ==
                 IF diceData.category # ""
                 THEN <<Sym("(")>> \o dice
                         \o <<Tag(diceData.category), Sym(")")>>
                 ELSE dice
         IN  << inner \o TypeTagOr(diceData.damageType) >>
    ELSE <<>>

\* The parts pushed by createAlternativeCriticalFormula, in order.
richFormulaParts(damageData, isCriticalHit, doubleStatic) ==
    Flatten([i \in 1..Len(damageData.base) |->
                baseFormulaParts(damageData.base[i], isCriticalHit)])
    \o Flatten([i \in 1..Len(damageData.modifiers) |->
                modifierFormulaParts(damageData.modifiers[i], isCriticalHit,
                                     doubleStatic)])
    \o Flatten([i \in 1..Len(damageData.dice) |->
                diceFormulaParts(damageData.dice[i], isCriticalHit)])

\* [throws, formula]: throws "No damage components found" when no part was
\* pushed, else `{${formulaParts.join(',')}}`.
createAlternativeCriticalFormula(damageData, isCriticalHit, doubleStatic) ==
    LET formulaParts ==
            richFormulaParts(damageData, isCriticalHit, doubleStatic)
    IN  IF formulaParts = <<>>
        THEN [throws |-> TRUE, formula |-> <<>>]
        ELSE [throws |-> FALSE,
              formula |-> <<Sym("{")>> \o JoinComma(formulaParts)
                             \o <<Sym("}")>>]

(***************************************************************************)
(* Items and actors (the host's read-only data model).                     *)
(*                                                                         *)
(* item = [id, type, category, shape, dice, die, modifier, damageType,     *)
(*         damageBonus, persistentNumber, persistentType, instances,       *)
(*         traits, striking,                                               *)
(*         bonusDamage, bonusDamageValue, splashValue, bonusNumber,        *)
(*         bonusObjDamage, bonusObjFlat, flatDamageBonus, properties,      *)
(*         strMod]                                                         *)
(*   shape: "none"  - item.system.damage is absent,                        *)
(*          "flat"  - { dice, die, modifier, damageType, bonus,            *)
(*                      persistent: { number, type } },                    *)
(*          "keyed" - { key: { damage: <expression>, type } } (instances)  *)
(*   bonusDamage: "absent" | "object" | "null" (item.system.bonusDamage)   *)
(*   bonusNumber: item.system.bonus when it is a number                    *)
(*   bonusObjDamage, bonusObjFlat: item.system.bonus.damage / .flat when   *)
(*          item.system.bonus is an object                                 *)
(*   properties: the `bonus` of each entry of item.system.properties       *)
(*   strMod: actor.system.abilities.str.mod of the message's actor         *)
(* instance = [has, throws, terms, type]: `damage` is a non-empty string   *)
(*   (has), `new Roll(damage)` throws (throws), or has the terms `terms`,  *)
(*   each [kind, number, faces] with kind "dice" (DiceTerm), "num"         *)
(*   (NumericTerm) or "op" (any other term).                               *)
(***************************************************************************)
\* trait.startsWith("deadly-")
StartsWithDeadly(trait) == trait \in {"deadly-d6", "deadly-d8", "deadly-d10"}

\* trait.replace("deadly-", "")
ReplaceDeadly(trait) ==
    CASE trait = "deadly-d6" -> "d6"
      [] trait = "deadly-d8" -> "d8"
      [] trait = "deadly-d10" -> "d10"
      [] OTHER -> trait

(***************************************************************************)
(* attemptDirectDamageCalculation: the synthetic damage structure.         *)
(* [throws, data]; throws is the TypeError of `baseDamage.damageType` on   *)
(* an absent item.system.damage when the item carries a deadly trait.      *)
(***************************************************************************)
syntheticDamageData(item) ==
    LET hasBase == item.shape = "flat" /\ item.dice # 0 /\ item.die # ""
        baseType == IF item.shape = "flat" /\ item.damageType # ""
                    THEN item.damageType ELSE "untyped"
        base == IF hasBase
                THEN << [diceNumber |-> item.dice, dieSize |-> item.die,
                         modifier |-> item.modifier,
                         damageType |-> baseType, category |-> ""] >>
                ELSE <<>>
        modifiers ==
                IF item.type = "weapon" /\ item.category # "unarmed"
                      /\ item.strMod > 0
                THEN << [enabled |-> TRUE, ignored |-> FALSE,
                         modifier |-> item.strMod, damageCategory |-> "",
                         damageType |-> ""] >>
                ELSE <<>>
        deadly == SelectSeq(item.traits, StartsWithDeadly)
        dice == [i \in 1..Len(deadly) |->
                    [enabled |-> TRUE, ignored |-> FALSE, critical |-> TRUE,
                     diceNumber |-> 1, dieSize |-> ReplaceDeadly(deadly[i]),
                     damageType |-> baseType, category |-> ""]]
    IN  [throws |-> (deadly # <<>> /\ item.shape = "none"),
         data |-> [base |-> base, modifiers |-> modifiers, dice |-> dice]]

(***************************************************************************)
(* Legacy parsing: parseWeaponDamage, parseSpellDamage and the inline      *)
(* parse of other item types.  Each gives [throws, formula], formula <<>>  *)
(* standing for null.                                                      *)
(***************************************************************************)
\* totalModifier of parseWeaponDamage, addition by addition.
weaponTotalModifier(item) ==
      item.modifier                                       \* damage.modifier
    + (IF item.bonusDamage = "object" THEN item.bonusDamageValue ELSE 0)
    + item.persistentNumber                      \* damage.persistent.number
    + item.splashValue                                  \* splashDamage.value
    + item.bonusObjDamage                         \* weaponSystem.bonus.damage
    + item.bonusObjFlat                             \* weaponSystem.bonus.flat
    + item.flatDamageBonus                       \* weaponSystem.flatDamageBonus
    + item.damageBonus                            \* weaponSystem.damage.bonus
    + (IF item.bonusDamage = "object" THEN item.bonusDamageValue ELSE 0)
    + item.bonusNumber                                  \* weaponSystem.bonus
    + item.bonusNumber                                  \* item.system.bonus
    + item.bonusNumber                   \* item.system.bonus (root object)
    + item.modifier                               \* weaponDamage.modifier
    + SumSeq(item.properties)                            \* property.bonus
    + item.bonusNumber                          \* item.system.bonus (last)

parseWeaponDamage(item, isCriticalHit) ==
    LET dieType == IF item.shape = "flat" THEN DieTable(item.die) ELSE 0
    IN  IF item.shape = "none" THEN [throws |-> FALSE, formula |-> <<>>]
        ELSE IF ~(item.shape = "flat" /\ item.dice # 0 /\ dieType # 0)
        THEN [throws |-> FALSE, formula |-> <<>>]
        ELSE IF item.bonusDamage = "null"
        \* typeof null === "object", then null.value
        THEN [throws |-> TRUE, formula |-> <<>>]
        ELSE LET totalModifier == weaponTotalModifier(item)
                 totalDice == item.dice
                                + (IF item.striking > 0 THEN item.striking
                                   ELSE 0)
                 damageType == IF item.damageType # "" THEN item.damageType
                               ELSE "untyped"
             IN  [throws |-> FALSE,
                  formula |->
                     IF isCriticalHit
                     THEN createDamageFormula(totalDice, dieType,
                              totalModifier, damageType, "")
                     ELSE createStandardDamageFormula(item.dice, dieType,
                              totalModifier, damageType, "")]

\* A term parse that never doubles a numeric term.
spellTermParts_Undoubled(term, type, isCriticalHit, doubleStatic) ==
    LET damageType == IF type # "" THEN type ELSE "untyped"
    IN  IF term.kind = "dice"
        THEN IF isCriticalHit
             THEN << createDamageFormula(term.number, term.faces, 0,
                                         damageType, "") >>
             ELSE << createStandardDamageFormula(term.number, term.faces, 0,
                                                 damageType, "") >>
        ELSE IF term.kind = "num" /\ term.number # 0
        THEN << createStandardDamageFormula(0, 1, term.number,
                                            damageType, "") >>
        ELSE <<>>

\* The parts pushed for one term of a parsed damage instance.
spellTermParts(term, type, isCriticalHit, doubleStatic) ==
    LET damageType == IF type # "" THEN type ELSE "untyped"
    IN  IF term.kind = "dice"
        THEN IF isCriticalHit
             THEN << createDamageFormula(term.number, term.faces, 0,
                                         damageType, "") >>
             ELSE << createStandardDamageFormula(term.number, term.faces, 0,
                                                 damageType, "") >>
        ELSE IF term.kind = "num" /\ term.number # 0
        THEN IF isCriticalHit /\ doubleStatic
             THEN << createDamageFormula(0, 1, term.number * 2,
                                         damageType, "") >>
             ELSE << createStandardDamageFormula(0, 1, term.number,
                                                 damageType, "") >>
        ELSE <<>>

\* The parts pushed for one damage instance.
spellInstanceParts(damageInstance, isCriticalHit, doubleStatic) ==
    LET damageType == IF damageInstance.type # "" THEN damageInstance.type
                      ELSE "untyped"
    IN  IF ~damageInstance.has THEN <<>>
        ELSE IF damageInstance.throws
        THEN IF isCriticalHit
             THEN << createDamageFormula(1, 6, 0, damageType, "") >>
             ELSE << createStandardDamageFormula(1, 6, 0, damageType, "") >>
        ELSE Flatten([i \in 1..Len(damageInstance.terms) |->
                 spellTermParts(damageInstance.terms[i], damageInstance.type,
                                isCriticalHit, doubleStatic)])

parseSpellDamage(item, isCriticalHit, doubleStatic) ==
    IF item.shape # "keyed" \/ item.instances = <<>>
    THEN [throws |-> FALSE, formula |-> <<>>]
    ELSE [throws |-> FALSE,
          formula |-> JoinComma(Flatten(
              [i \in 1..Len(item.instances) |->
                  spellInstanceParts(item.instances[i], isCriticalHit,
                                     doubleStatic)]))]

\* A parse that falls back to 1d6, as the spell parse does, when the item
\* describes no damage.
parseOtherDamage_Default(item, isCriticalHit) ==
    [throws |-> FALSE,
     formula |-> createStandardDamageFormula(1, 6, 0, "untyped", "")]

\* The else branch of rollAlternativeCriticalDamageLegacy.
parseOtherDamage(item, isCriticalHit) ==
    IF item.shape = "flat" /\ item.dice # 0 /\ item.die # ""
    THEN LET dieType == DieTable(item.die)
             damageType == IF item.damageType # "" THEN item.damageType
                           ELSE "untyped"
         IN  [throws |-> FALSE,
              formula |->
                 IF isCriticalHit
                 THEN createDamageFormula(item.dice, dieType, item.modifier,
                                          damageType, "")
                 ELSE createStandardDamageFormula(item.dice, dieType,
                                          item.modifier, damageType, "")]
    ELSE [throws |-> FALSE, formula |-> <<>>]

\* damageFormula of rollAlternativeCriticalDamageLegacy, by item type.
legacyDamageFormula(item, isCriticalHit, doubleStatic) ==
    IF item.type = "weapon" THEN parseWeaponDamage(item, isCriticalHit)
    ELSE IF item.type = "spell"
    THEN parseSpellDamage(item, isCriticalHit, doubleStatic)
    ELSE parseOtherDamage(item, isCriticalHit)

(***************************************************************************)
(* Bounds and the data the model runs on.                                  *)
(***************************************************************************)
\* The number of clock advances in one behaviour.
MaxTicks == 3

\* (Date.now() - timestamp) < 30000
FreshnessWindow == 30000

\* The clock advances by one millisecond or by one millisecond less than
\* the freshness window, so that the ages 29999, 30000 and 30001 all occur.
TickSteps == {1, FreshnessWindow - 1}

BlankItem ==
    [id |-> "", type |-> "weapon", category |-> "martial", shape |-> "none",
     dice |-> 0, die |-> "", modifier |-> 0, damageType |-> "",
     damageBonus |-> 0, persistentNumber |-> 0, persistentType |-> "",
     instances |-> <<>>,
     traits |-> <<>>, striking |-> 0, bonusDamage |-> "absent",
     bonusDamageValue |-> 0, splashValue |-> 0, bonusNumber |-> 0,
     bonusObjDamage |-> 0, bonusObjFlat |-> 0, flatDamageBonus |-> 0,
     properties |-> <<>>, strMod |-> 0]

\* A +1 striking rapier (1d6 base, one striking die, deadly d8) in the
\* hands of an actor with strength modifier 1.
Rapier ==
    [BlankItem EXCEPT !.id = "rapier", !.shape = "flat", !.dice = 1,
                      !.die = "d6", !.modifier = 4,
                      !.damageType = "piercing",
                      !.traits = <<"finesse", "deadly-d8">>,
                      !.striking = 1, !.strMod = 1]

\* A weapon whose item.system.bonusDamage is null.
Club ==
    [BlankItem EXCEPT !.id = "club", !.shape = "flat", !.dice = 1,
                      !.die = "d6", !.modifier = 2,
                      !.damageType = "bludgeoning",
                      !.bonusDamage = "null"]

\* A spell with one keyed damage instance, "2d6+3" fire.
Fireball ==
    [BlankItem EXCEPT !.id = "fireball", !.type = "spell",
                      !.category = "", !.shape = "keyed",
                      !.instances =
                          << [has |-> TRUE, throws |-> FALSE, type |-> "fire",
                              terms |-> << [kind |-> "dice", number |-> 2,
                                            faces |-> 6],
                                           [kind |-> "op", number |-> 0,
                                            faces |-> 0],
                                           [kind |-> "num", number |-> 3,
                                            faces |-> 0] >>] >>]

\* A weapon with no damage description that still carries a deadly trait.
Husk ==
    [BlankItem EXCEPT !.id = "husk", !.traits = <<"deadly-d10">>]

\* An item of another type with no damage description at all.
Torch ==
    [BlankItem EXCEPT !.id = "torch", !.type = "equipment",
                      !.category = ""]

NoDamageData == [base |-> <<>>, modifiers |-> <<>>, dice |-> <<>>]

\* roll.options.damage.damage of the host's normal damage roll for the
\* rapier: strength, precise strike, a disabled conditional bonus, deadly.
RapierRoll ==
    [base |-> << [diceNumber |-> 2, dieSize |-> "d6", modifier |-> 0,
                  damageType |-> "piercing", category |-> ""] >>,
     modifiers |-> << [enabled |-> TRUE, ignored |-> FALSE, modifier |-> 1,
                       damageCategory |-> "", damageType |-> ""],
                      [enabled |-> TRUE, ignored |-> FALSE, modifier |-> 3,
                       damageCategory |-> "precision", damageType |-> ""],
                      [enabled |-> FALSE, ignored |-> FALSE, modifier |-> 2,
                       damageCategory |-> "", damageType |-> "fire"] >>,
     dice |-> << [enabled |-> TRUE, ignored |-> FALSE, critical |-> TRUE,
                  diceNumber |-> 1, dieSize |-> "d8",
                  damageType |-> "piercing", category |-> ""] >>]

ClubRoll ==
    [base |-> << [diceNumber |-> 1, dieSize |-> "d6", modifier |-> 2,
                  damageType |-> "bludgeoning", category |-> ""] >>,
     modifiers |-> <<>>, dice |-> <<>>]

\* A damage roll whose structure has a flat base entry only: no part is
\* synthesized from it.
FlatOnlyRoll ==
    [base |-> << [diceNumber |-> 0, dieSize |-> "", modifier |-> 5,
                  damageType |-> "fire", category |-> ""] >>,
     modifiers |-> <<>>, dice |-> <<>>]

\* A chat entry the host reports as created:
\* [rollClass, itemId, hasDamage, damage];  rollClass is the constructor
\* name of rolls[0] ("" when the entry has no rolls), itemId is
\* message.item.id ("" when the entry has no item), hasDamage says whether
\* roll.options.damage.damage exists.  The state refers to a chat entry by
\* its name, as the program holds a reference to it.
MessageOf(m) ==
    CASE m = "rapierDamage" ->
            [rollClass |-> "DamageRoll", itemId |-> "rapier",
             hasDamage |-> TRUE, damage |-> RapierRoll]
      [] m = "clubDamage" ->
            [rollClass |-> "DamageRoll", itemId |-> "club",
             hasDamage |-> TRUE, damage |-> ClubRoll]
      [] m = "fireballDamage" ->
            [rollClass |-> "DamageRoll", itemId |-> "fireball",
             hasDamage |-> TRUE, damage |-> FlatOnlyRoll]
      [] m = "rapierInlineDamage" ->
            [rollClass |-> "DamageRoll", itemId |-> "rapier",
             hasDamage |-> FALSE, damage |-> NoDamageData]
      [] m = "rapierAttack" ->
            [rollClass |-> "CheckRoll", itemId |-> "rapier",
             hasDamage |-> FALSE, damage |-> NoDamageData]
      [] m = "text" ->
            [rollClass |-> "", itemId |-> "rapier",
             hasDamage |-> FALSE, damage |-> NoDamageData]
      \* The chat entry ChatMessage.create makes for an invocation: its
      \* roll is a DamageRoll built from a formula alone (no
      \* options.damage), and the creation data names a speaker, no item.
      [] m = "altCrit" ->
            [rollClass |-> "DamageRoll", itemId |-> "",
             hasDamage |-> FALSE, damage |-> NoDamageData]
      [] OTHER ->
            [rollClass |-> "", itemId |-> "", hasDamage |-> FALSE,
             damage |-> NoDamageData]

\* The chat entries other users and the host's own damage buttons create.
HostMessages ==
    {"rapierDamage", "clubDamage", "fireballDamage", "rapierInlineDamage",
     "rapierAttack", "text"}

\* The chat entry an invocation creates.
OwnMessage == "altCrit"

ItemOf(id) ==
    CASE id = "rapier" -> Rapier
      [] id = "club" -> Club
      [] id = "fireball" -> Fireball
      [] id = "husk" -> Husk
      [] id = "torch" -> Torch
      [] OTHER -> BlankItem

ItemIds == {"rapier", "club", "fireball", "husk", "torch"}

\* message.flags.pf2e.context.outcome ("" when absent).
Outcomes == {"criticalSuccess", "success", ""}

(***************************************************************************)
(* State.                                                                  *)
(***************************************************************************)
VARIABLES
    now,                \* Date.now()
    ticks,              \* clock advances so far
    doubleStatic,       \* the "doubleStatic" setting
    lastDamageRollData, \* the capture slot
    pc,                 \* "idle" | "eval" | "post" | "done"
    item,               \* the id of the invocation's item
    isCriticalHit,      \* of the invocation
    tier,               \* the tier the invocation is in
    tiers,              \* the tiers the invocation entered, in order
    lookup,             \* what the invocation's cache lookup saw
    parts,              \* the formulas handed to the roll engine
    pending,            \* indices of parts whose evaluation is in flight
    rolls,              \* the evaluated rolls, <<>> where not yet there
    rejected,           \* tiers in which an evaluation was rejected
    posts,              \* chat posts created by the invocation
    rolled,             \* roll evaluations the invocation asked for
    warnings,           \* ui.notifications.warn calls of the invocation
    errors,             \* ui.notifications.error calls of the invocation
    lastHostDamageRoll, \* the latest damage roll the host itself reported
    input,              \* the arguments of a synthesizer call
    output,             \* what the synthesizer returned
    enabled,            \* the "enabled" setting
    buttons,            \* the items whose chat entry shows "Alt Crit"
    clicked             \* what the click that started the invocation saw

vars == <<now, ticks, doubleStatic, lastDamageRollData, pc, item,
          isCriticalHit, tier, tiers, lookup, parts, pending, rolls, rejected,
          posts, rolled, warnings, errors, lastHostDamageRoll, input, output,
          enabled, buttons, clicked>>

\* The variables of the invocation.
invocation == <<pc, item, isCriticalHit, tier, tiers, lookup, parts, pending,
                rolls, rejected, posts, rolled, warnings, errors>>

\* The variables of the synthesizer calls.
synthesis == <<input, output>>

\* The variables of the button.
gate == <<enabled, buttons, clicked>>

\* let lastDamageRollData = null
NoCapture == [set |-> FALSE, message |-> "", timestamp |-> 0]

\* What a lookup saw: whether the slot was set, the chat entry it held,
\* and Date.now() - timestamp; beside it, whether the latest damage roll the
\* host reported was one of the invocation's item, with its structure, less
\* than the freshness window ago.
NoLookup == [captured |-> FALSE, message |-> "", age |-> 0, recent |-> FALSE]

NoInput ==
    [num |-> 0, die |-> "", mod |-> 0, damageType |-> "", category |-> "",
     isCriticalHit |-> FALSE, doubleStatic |-> FALSE,
     enabled |-> FALSE, ignored |-> FALSE, critical |-> FALSE]

NoOutput == [fn |-> "", throws |-> FALSE, formula |-> <<>>]

\* The outcome flag of the clicked chat entry and the "enabled" setting at
\* the time of the click.
NoClick == [outcome |-> "", enabled |-> TRUE]

\* No invocation is running.
Idle ==
    /\ pc = "idle"
    /\ item = ""
    /\ isCriticalHit = FALSE
    /\ tier = ""
    /\ tiers = <<>>
    /\ lookup = NoLookup
    /\ parts = <<>>
    /\ pending = {}
    /\ rolls = <<>>
    /\ rejected = {}
    /\ posts = <<>>
    /\ rolled = 0
    /\ warnings = 0
    /\ errors = 0

Init ==
    /\ now = 0
    /\ ticks = 0
    /\ doubleStatic = TRUE
    /\ lastDamageRollData = NoCapture
    /\ lastHostDamageRoll = NoCapture
    /\ Idle
    /\ input = NoInput
    /\ output = NoOutput
    /\ enabled = TRUE
    /\ buttons = ItemIds
    /\ clicked = NoClick

(***************************************************************************)
(* The createChatMessage hook: the capture.                                *)
(***************************************************************************)
\* A hook that records every created chat entry that carries a roll.
captureDamageRoll_AnyRoll(slot, m, t) ==
    IF MessageOf(m).rollClass # ""
    THEN [set |-> TRUE, message |-> m, timestamp |-> t]
    ELSE slot

\* The slot after the hook has run on chat entry m at time t.
captureDamageRoll(slot, m, t) ==
    IF MessageOf(m).rollClass = "DamageRoll"
    THEN [set |-> TRUE, message |-> m, timestamp |-> t]
    ELSE slot

(***************************************************************************)
(* The cache lookup of rollAlternativeCriticalDamageFromPF2eData.          *)
(***************************************************************************)
\* A lookup that asks for a captured item without comparing the ids.
sameItem_AnyItem(slot, id) ==
    /\ slot.set
    /\ MessageOf(slot.message).itemId # ""

\* lastDamageRollData && lastDamageRollData.message.item &&
\* lastDamageRollData.message.item.id === item.id
sameItem(slot, id) ==
    /\ slot.set
    /\ MessageOf(slot.message).itemId # ""
    /\ MessageOf(slot.message).itemId = id

\* A freshness test whose boundary is inclusive.
isFresh_Inclusive(slot, t) == (t - slot.timestamp) <= FreshnessWindow

\* (Date.now() - lastDamageRollData.timestamp) < 30000
isFresh(slot, t) == (t - slot.timestamp) < FreshnessWindow

\* The condition of the `if` that guards the cache tier.
cacheHit(slot, id, t) == sameItem(slot, id) /\ isFresh(slot, t)

\* lastDamageRollData.roll.options?.damage?.damage is there.
hasDamageData(slot) == slot.set /\ MessageOf(slot.message).hasDamage

(***************************************************************************)
(* The synchronous runs of an invocation, from a call to the next await of *)
(* a host call.  Each gives what the invocation has become:                *)
(*   [pc, tier, tiers, parts, warn, err]                                   *)
(* pc "eval": suspended on the evaluation of `parts`; pc "done": returned, *)
(* after warn warnings and err error notifications.                        *)
(***************************************************************************)
\* rollAlternativeCriticalDamageLegacy called at `site`:
\*   1 - in the try block of attemptDirectDamageCalculation,
\*   2 - in the catch block of attemptDirectDamageCalculation,
\*   3 - in the catch block of rollAlternativeCriticalDamageFromPF2eData.
\* An exception of the parse leaves site 1 for the catch block that holds
\* site 2, site 2 for the one that holds site 3, and site 3 for the catch
\* block of handleAlternativeCritical.
RECURSIVE rollAlternativeCriticalDamageLegacy(_, _, _, _, _)
rollAlternativeCriticalDamageLegacy(site, it, crit, ds, entered) ==
    LET r == legacyDamageFormula(it, crit, ds)
        here == Append(entered, "legacy")
    IN  IF r.throws
        THEN IF site = 3
             THEN [pc |-> "done", tier |-> "legacy", tiers |-> here,
                   parts |-> <<>>, warn |-> 0, err |-> 1]
             ELSE rollAlternativeCriticalDamageLegacy(site + 1, it, crit, ds,
                                                      here)
        ELSE IF r.formula = <<>>
        THEN [pc |-> "done", tier |-> "legacy", tiers |-> here,
              parts |-> <<>>, warn |-> 1, err |-> 0]
        ELSE [pc |-> "eval", tier |-> "legacy", tiers |-> here,
              parts |-> SplitComma(r.formula), warn |-> 0, err |-> 0]

attemptDirectDamageCalculation(it, crit, ds, entered) ==
    LET s == syntheticDamageData(it)
        here == Append(entered, "direct")
        f == createAlternativeCriticalFormula(s.data, crit, ds)
    IN  IF s.throws
        THEN rollAlternativeCriticalDamageLegacy(2, it, crit, ds, here)
        ELSE IF s.data.base # <<>>
        THEN IF f.throws
             THEN rollAlternativeCriticalDamageLegacy(2, it, crit, ds, here)
             ELSE [pc |-> "eval", tier |-> "direct", tiers |-> here,
                   parts |-> <<f.formula>>, warn |-> 0, err |-> 0]
        ELSE rollAlternativeCriticalDamageLegacy(1, it, crit, ds, here)

rollAlternativeCriticalDamageFromPF2eData(slot, it, crit, ds, t) ==
    IF cacheHit(slot, it.id, t) /\ hasDamageData(slot)
    THEN LET f == createAlternativeCriticalFormula(
                      MessageOf(slot.message).damage, crit, ds)
         IN  IF f.throws
             THEN rollAlternativeCriticalDamageLegacy(3, it, crit, ds,
                                                      <<"cache">>)
             ELSE [pc |-> "eval", tier |-> "cache", tiers |-> <<"cache">>,
                   parts |-> <<f.formula>>, warn |-> 0, err |-> 0]
    ELSE attemptDirectDamageCalculation(it, crit, ds, <<>>)

\* A cache tier whose failure is followed by direct calculation.
afterRejection_ToDirect(t, it, crit, ds, entered) ==
    IF t = "cache"
    THEN attemptDirectDamageCalculation(it, crit, ds, entered)
    ELSE IF t = "direct"
    THEN rollAlternativeCriticalDamageLegacy(2, it, crit, ds, entered)
    ELSE [pc |-> "done", tier |-> "legacy", tiers |-> entered,
          parts |-> <<>>, warn |-> 0, err |-> 1]

\* A legacy tier that swallows the exception without telling the user.
afterRejection_Silent(t, it, crit, ds, entered) ==
    IF t = "cache"
    THEN rollAlternativeCriticalDamageLegacy(3, it, crit, ds, entered)
    ELSE IF t = "direct"
    THEN rollAlternativeCriticalDamageLegacy(2, it, crit, ds, entered)
    ELSE [pc |-> "done", tier |-> "legacy", tiers |-> entered,
          parts |-> <<>>, warn |-> 0, err |-> 0]

\* A cache or direct tier that tells the user of its failure before the
\* legacy tier runs.
afterRejection_Notifying(t, it, crit, ds, entered) ==
    IF t = "cache"
    THEN [rollAlternativeCriticalDamageLegacy(3, it, crit, ds, entered)
             EXCEPT !.err = @ + 1]
    ELSE IF t = "direct"
    THEN [rollAlternativeCriticalDamageLegacy(2, it, crit, ds, entered)
             EXCEPT !.err = @ + 1]
    ELSE [pc |-> "done", tier |-> "legacy", tiers |-> entered,
          parts |-> <<>>, warn |-> 0, err |-> 1]

\* A direct tier whose failure is followed by a second look at the slot.
afterRejection_ReadsSlot(t, it, crit, ds, entered) ==
    IF t = "cache"
    THEN rollAlternativeCriticalDamageLegacy(3, it, crit, ds, entered)
    ELSE IF t = "direct"
    THEN IF cacheHit(lastDamageRollData, it.id, now)
               /\ hasDamageData(lastDamageRollData)
               /\ ~createAlternativeCriticalFormula(
                      MessageOf(lastDamageRollData.message).damage, crit,
                      ds).throws
         THEN [pc |-> "eval", tier |-> "cache",
               tiers |-> Append(entered, "cache"),
               parts |-> <<createAlternativeCriticalFormula(
                              MessageOf(lastDamageRollData.message).damage,
                              crit, ds).formula>>,
               warn |-> 0, err |-> 0]
         ELSE rollAlternativeCriticalDamageLegacy(2, it, crit, ds, entered)
    ELSE [pc |-> "done", tier |-> "legacy", tiers |-> entered,
          parts |-> <<>>, warn |-> 0, err |-> 1]

\* What follows an exception thrown in tier t after its formula was built
\* (a rejected evaluation, a rejected chat post).
afterRejection(t, it, crit, ds, entered) ==
    IF t = "cache"
    THEN rollAlternativeCriticalDamageLegacy(3, it, crit, ds, entered)
    ELSE IF t = "direct"
    THEN rollAlternativeCriticalDamageLegacy(2, it, crit, ds, entered)
    ELSE [pc |-> "done", tier |-> "legacy", tiers |-> entered,
          parts |-> <<>>, warn |-> 0, err |-> 1]

\* The invocation becomes k.
Become(k) ==
    /\ pc' = k.pc
    /\ tier' = k.tier
    /\ tiers' = k.tiers
    /\ parts' = k.parts
    /\ pending' = IF k.pc = "eval" THEN 1..Len(k.parts) ELSE {}
    /\ rolls' = [i \in 1..Len(k.parts) |-> <<>>]
    /\ rolled' = rolled + (IF k.pc = "eval" THEN Len(k.parts) ELSE 0)
    /\ warnings' = warnings + k.warn
    /\ errors' = errors + k.err

(***************************************************************************)
(* Actions.                                                                *)
(*                                                                         *)
(* One invocation runs at a time.  Between two awaits of a host call it    *)
(* runs without interruption (one JavaScript task); while it is suspended  *)
(* on a host call, time passes, settings change and chat entries of other  *)
(* users arrive.  pc = "done" is the state in which the invocation has     *)
(* returned; its task ends with Return.                                    *)
(***************************************************************************)
\* Time passes.
Tick(d) ==
    /\ pc # "done"
    /\ ticks < MaxTicks
    /\ ticks' = ticks + 1
    /\ now' = now + d
    /\ UNCHANGED <<doubleStatic, lastDamageRollData, lastHostDamageRoll,
                   invocation, synthesis, gate>>

\* The game master changes the "doubleStatic" setting.
SetDoubleStatic ==
    /\ pc # "done"
    /\ doubleStatic' = ~doubleStatic
    /\ UNCHANGED <<now, ticks, lastDamageRollData, lastHostDamageRoll,
                   invocation, synthesis, gate>>

\* Hooks.on("createChatMessage"): the host reports a chat entry created by
\* someone else (a normal damage roll, an attack roll, plain text).
createChatMessage(m) ==
    /\ pc # "done"
    /\ lastDamageRollData' = captureDamageRoll(lastDamageRollData, m, now)
    /\ lastHostDamageRoll' =
           IF MessageOf(m).rollClass = "DamageRoll"
           THEN [set |-> TRUE, message |-> m, timestamp |-> now]
           ELSE lastHostDamageRoll
    /\ UNCHANGED <<now, ticks, doubleStatic, invocation, synthesis, gate>>

\* An outcome test that takes every outcome the host has set as a critical.
isCritical_AnyOutcome(outcome) == outcome # ""

\* attackOutcome === "criticalSuccess"
isCritical(outcome) == outcome = "criticalSuccess"

\* The user clicks "Alt Crit" on a chat entry of item id whose outcome flag
\* is `outcome`: handleAlternativeCritical up to its first await of a host
\* call.
handleAlternativeCritical(id, outcome) ==
    /\ pc = "idle"
    /\ id \in buttons
    /\ item' = id
    /\ isCriticalHit' = isCritical(outcome)
    /\ lookup' = [captured |-> lastDamageRollData.set,
                  message |-> lastDamageRollData.message,
                  age |-> now - lastDamageRollData.timestamp,
                  recent |->
                      /\ lastHostDamageRoll.set
                      /\ MessageOf(lastHostDamageRoll.message).itemId = id
                      /\ MessageOf(lastHostDamageRoll.message).hasDamage
                      /\ now - lastHostDamageRoll.timestamp
                            < FreshnessWindow]
    /\ \E k \in {rollAlternativeCriticalDamageFromPF2eData(
                    lastDamageRollData, ItemOf(id),
                    isCritical(outcome), doubleStatic, now)} :
           Become(k)
    /\ UNCHANGED <<now, ticks, doubleStatic, lastDamageRollData,
                   lastHostDamageRoll, rejected, posts, synthesis,
                   enabled, buttons>>

\* A combinator that collects the results in the order of completion.
promiseAll_CompletionOrder(results, i, roll) ==
    LET first == CHOOSE j \in 1..Len(results) :
                     /\ results[j] = <<>>
                     /\ \A h \in 1..(j - 1) : results[h] # <<>>
    IN  [results EXCEPT ![first] = roll]

\* `await roll.evaluate()` and Promise.all: the result of the i-th
\* evaluation is the i-th roll, whenever it arrives.  A roll is modelled by
\* the formula it was built from.
promiseAll(results, i, roll) == [results EXCEPT ![i] = roll]

\* The host resolves the evaluation of part i.  With the last one resolved
\* the invocation builds its flavor text and awaits ChatMessage.create.
evaluateResolves(i) ==
    /\ pc = "eval"
    /\ i \in pending
    /\ pending' = pending \ {i}
    /\ rolls' = promiseAll(rolls, i, parts[i])
    /\ pc' = IF pending' = {} THEN "post" ELSE "eval"
    /\ UNCHANGED <<now, ticks, doubleStatic, lastDamageRollData,
                   lastHostDamageRoll, item, isCriticalHit, tier, tiers,
                   lookup, parts, rejected, posts, rolled, warnings, errors,
                   synthesis, gate>>

\* The host rejects the evaluation of part i.
evaluateRejects(i) ==
    /\ pc = "eval"
    /\ i \in pending
    /\ rejected' = rejected \cup {tier}
    /\ \E k \in {afterRejection(tier, ItemOf(item), isCriticalHit,
                                doubleStatic, tiers)} :
           Become(k)
    /\ UNCHANGED <<now, ticks, doubleStatic, lastDamageRollData,
                   lastHostDamageRoll, item, isCriticalHit, lookup, posts,
                   synthesis, gate>>

\* flavorText of tier t: the missing-modifiers note is appended in
\* attemptDirectDamageCalculation only.
flavorNote(t) == t = "direct"

\* ChatMessage.create resolves: the chat entry exists, the host has
\* reported it to the createChatMessage hook, and the invocation returns.
chatMessageCreated ==
    /\ pc = "post"
    /\ posts' = Append(posts, [tier |-> tier, note |-> flavorNote(tier),
                               critical |-> isCriticalHit, rolls |-> rolls])
    /\ lastDamageRollData' =
           captureDamageRoll(lastDamageRollData, OwnMessage, now)
    /\ pc' = "done"
    /\ UNCHANGED <<now, ticks, doubleStatic, lastHostDamageRoll, item,
                   isCriticalHit, tier, tiers, lookup, parts, pending, rolls,
                   rejected, rolled, warnings, errors, synthesis, gate>>

\* ChatMessage.create rejects: no chat entry is created.
chatMessageRejected ==
    /\ pc = "post"
    /\ \E k \in {afterRejection(tier, ItemOf(item), isCriticalHit,
                                doubleStatic, tiers)} :
           Become(k)
    /\ UNCHANGED <<now, ticks, doubleStatic, lastDamageRollData,
                   lastHostDamageRoll, item, isCriticalHit, lookup, rejected,
                   posts, synthesis, gate>>

\* The task of a returned invocation ends.
Return ==
    /\ pc = "done"
    /\ pc' = "idle"
    /\ item' = ""
    /\ isCriticalHit' = FALSE
    /\ tier' = ""
    /\ tiers' = <<>>
    /\ lookup' = NoLookup
    /\ parts' = <<>>
    /\ pending' = {}
    /\ rolls' = <<>>
    /\ rejected' = {}
    /\ posts' = <<>>
    /\ rolled' = 0
    /\ warnings' = 0
    /\ errors' = 0
    /\ clicked' = NoClick
    /\ UNCHANGED <<now, ticks, doubleStatic, lastDamageRollData,
                   lastHostDamageRoll, synthesis, enabled, buttons>>

Next ==
    \/ \E d \in TickSteps : Tick(d)
    \/ SetDoubleStatic
    \/ \E m \in HostMessages : createChatMessage(m)
    \/ \E id \in ItemIds, o \in Outcomes :
           handleAlternativeCritical(id, o) /\ UNCHANGED clicked
    \/ \E i \in pending : evaluateResolves(i)
    \/ \E i \in pending : evaluateRejects(i)
    \/ chatMessageCreated
    \/ chatMessageRejected
    \/ Return

Spec == Init /\ [][Next]_vars

(***************************************************************************)
(* One invocation and its host calls: every roll evaluation and every chat *)
(* post the invocation awaits is settled by the host, resolved or          *)
(* rejected, while damage rolls of HostCallMessages are reported.  The     *)
(* clock stands still and the settings do not change.                      *)
(***************************************************************************)
HostCallMessages == {"rapierDamage", "clubDamage", "fireballDamage"}

\* The host settles an evaluation the invocation awaits.
EvaluateSettles ==
    \E i \in pending : evaluateResolves(i) \/ evaluateRejects(i)

\* The host settles the ChatMessage.create the invocation awaits.
CreateSettles == chatMessageCreated \/ chatMessageRejected

HostCallNext ==
    \/ \E m \in HostCallMessages : createChatMessage(m)
    \/ \E id \in ItemIds, o \in Outcomes :
           handleAlternativeCritical(id, o) /\ UNCHANGED clicked
    \/ \E i \in pending : evaluateResolves(i)
    \/ \E i \in pending : evaluateRejects(i)
    \/ chatMessageCreated
    \/ chatMessageRejected
    \/ Return

HostCallSpec ==
    /\ Init
    /\ [][HostCallNext]_vars
    /\ WF_vars(EvaluateSettles)
    /\ WF_vars(CreateSettles)

(***************************************************************************)
(* The button: the "enabled" setting, the injection of "Alt Crit" into a   *)
(* rendered chat entry, and the click.  The entries rendered are those of  *)
(* ButtonItems, the damage rolls reported are ButtonMessages, the clock    *)
(* stands still and "doubleStatic" changes between invocations only.       *)
(***************************************************************************)
ButtonItems == {"rapier", "fireball", "torch"}

ButtonMessages == {"rapierDamage"}

\* The game master changes the "enabled" setting.
SetEnabled ==
    /\ pc # "done"
    /\ enabled' = ~enabled
    /\ UNCHANGED <<now, ticks, doubleStatic, lastDamageRollData,
                   lastHostDamageRoll, invocation, synthesis, buttons,
                   clicked>>

\* Hooks.on("renderChatMessage"): the host renders the chat entry of item
\* id ("" when the entry has no item); hasDamageButtons says whether it
\* shows one of the host's damage buttons.
renderChatMessage(id, hasDamageButtons) ==
    /\ pc # "done"
    /\ buttons' = IF enabled /\ id # "" /\ hasDamageButtons
                  THEN buttons \cup {id}
                  ELSE buttons
    /\ UNCHANGED <<now, ticks, doubleStatic, lastDamageRollData,
                   lastHostDamageRoll, invocation, synthesis, enabled,
                   clicked>>

ButtonInit ==
    /\ now = 0
    /\ ticks = 0
    /\ doubleStatic = TRUE
    /\ lastDamageRollData = NoCapture
    /\ lastHostDamageRoll = NoCapture
    /\ Idle
    /\ input = NoInput
    /\ output = NoOutput
    /\ enabled = TRUE
    /\ buttons = {}
    /\ clicked = NoClick

ButtonNext ==
    \/ SetEnabled
    \/ pc = "idle" /\ SetDoubleStatic
    \/ \E id \in ButtonItems \cup {""}, b \in BOOLEAN :
           renderChatMessage(id, b)
    \/ \E m \in ButtonMessages : createChatMessage(m)
    \/ \E id \in ItemIds, o \in Outcomes :
           /\ handleAlternativeCritical(id, o)
           /\ clicked' = [outcome |-> o, enabled |-> enabled]
    \/ \E i \in pending : evaluateResolves(i)
    \/ \E i \in pending : evaluateRejects(i)
    \/ chatMessageCreated
    \/ chatMessageRejected
    \/ Return

ButtonSpec == ButtonInit /\ [][ButtonNext]_vars

(***************************************************************************)
(* The synthesizers on their own: a call of one synthesizer on arguments   *)
(* drawn from bounded sets.  input = [num, die, mod, damageType, category, *)
(* isCriticalHit, doubleStatic]: the dice count, the die string, the flat  *)
(* modifier, the damage type and category, and the two switches.           *)
(***************************************************************************)
MaxDice == 3
MaxMod == 2

SynthInputs ==
    [num : 0..MaxDice, die : DieStrings \cup {""}, mod : (-MaxMod)..MaxMod,
     damageType : {"", "fire"}, category : {"", "persistent"},
     isCriticalHit : BOOLEAN, doubleStatic : BOOLEAN,
     enabled : BOOLEAN, ignored : BOOLEAN, critical : BOOLEAN]

\* The structure whose only component is the base entry of the input.
baseOnlyDamageData(in) ==
    [base |-> <<[diceNumber |-> in.num, dieSize |-> in.die,
                 modifier |-> in.mod, damageType |-> in.damageType,
                 category |-> in.category]>>,
     modifiers |-> <<>>, dice |-> <<>>]

\* A base entry that every structure with one more entry starts with.
SteadyBase ==
    [diceNumber |-> 1, dieSize |-> "d4", modifier |-> 0,
     damageType |-> "slashing", category |-> ""]

\* The structure with SteadyBase and the modifiers entry of the input.
modifierEntryDamageData(in) ==
    [base |-> <<SteadyBase>>,
     modifiers |-> <<[enabled |-> in.enabled, ignored |-> in.ignored,
                      modifier |-> in.mod, damageCategory |-> in.category,
                      damageType |-> in.damageType]>>,
     dice |-> <<>>]

\* The structure with SteadyBase and the extra-dice entry of the input.
diceEntryDamageData(in) ==
    [base |-> <<SteadyBase>>,
     modifiers |-> <<>>,
     dice |-> <<[enabled |-> in.enabled, ignored |-> in.ignored,
                 critical |-> in.critical, diceNumber |-> in.num,
                 dieSize |-> in.die, damageType |-> in.damageType,
                 category |-> in.category]>>]

SynthInit ==
    /\ now = 0
    /\ ticks = 0
    /\ doubleStatic = TRUE
    /\ lastDamageRollData = NoCapture
    /\ lastHostDamageRoll = NoCapture
    /\ Idle
    /\ input \in SynthInputs
    /\ output = NoOutput
    /\ enabled = TRUE
    /\ buttons = ItemIds
    /\ clicked = NoClick

callCreateDamageFormula ==
    /\ output' = [fn |-> "createDamageFormula", throws |-> FALSE,
                  formula |-> createDamageFormula(input.num,
                      DieTable(input.die), input.mod, input.damageType,
                      input.category)]
    /\ UNCHANGED <<now, ticks, doubleStatic, lastDamageRollData,
                   lastHostDamageRoll, invocation, input, gate>>

callCreateStandardDamageFormula ==
    /\ output' = [fn |-> "createStandardDamageFormula", throws |-> FALSE,
                  formula |-> createStandardDamageFormula(input.num,
                      DieTable(input.die), input.mod, input.damageType,
                      input.category)]
    /\ UNCHANGED <<now, ticks, doubleStatic, lastDamageRollData,
                   lastHostDamageRoll, invocation, input, gate>>

callCreateAlternativeCriticalFormula ==
    /\ \E f \in {createAlternativeCriticalFormula(baseOnlyDamageData(input),
                      input.isCriticalHit, input.doubleStatic)} :
           output' = [fn |-> "createAlternativeCriticalFormula",
                      throws |-> f.throws, formula |-> f.formula]
    /\ UNCHANGED <<now, ticks, doubleStatic, lastDamageRollData,
                   lastHostDamageRoll, invocation, input, gate>>

\* createAlternativeCriticalFormula on a structure with one modifiers entry.
callWithModifierEntry ==
    /\ \E f \in {createAlternativeCriticalFormula(
                      modifierEntryDamageData(input), input.isCriticalHit,
                      input.doubleStatic)} :
           output' = [fn |-> "modifierEntry", throws |-> f.throws,
                      formula |-> f.formula]
    /\ UNCHANGED <<now, ticks, doubleStatic, lastDamageRollData,
                   lastHostDamageRoll, invocation, input, gate>>

\* createAlternativeCriticalFormula on a structure with one extra-dice
\* entry.
callWithDiceEntry ==
    /\ \E f \in {createAlternativeCriticalFormula(
                      diceEntryDamageData(input), input.isCriticalHit,
                      input.doubleStatic)} :
           output' = [fn |-> "diceEntry", throws |-> f.throws,
                      formula |-> f.formula]
    /\ UNCHANGED <<now, ticks, doubleStatic, lastDamageRollData,
                   lastHostDamageRoll, invocation, input, gate>>

SynthNext ==
    \/ callCreateDamageFormula
    \/ callCreateStandardDamageFormula
    \/ callCreateAlternativeCriticalFormula
    \/ callWithModifierEntry
    \/ callWithDiceEntry

SynthSpec == SynthInit /\ [][SynthNext]_vars

(***************************************************************************)
(* The two synthesizers that read a weapon item, on their own: the legacy  *)
(* weapon parse and the direct-calculation estimator, called on weapons    *)
(* drawn from bounded sets.  input = [item, isCriticalHit, doubleStatic].  *)
(***************************************************************************)
MaxStriking == 2

WeaponDies == {"", "d6", "d12"}

PersistentNumbers == {0, 3}

SplashValues == {0, 2}

WeaponTraits ==
    {<<>>, <<"deadly-d8">>, <<"finesse", "deadly-d10">>,
     <<"deadly-d8", "deadly-d10">>}

StrengthModifiers == {0, 1}

\* item.system.bonus when it is a number.
BonusNumbers == {0, 1}

WeaponItems ==
    {[BlankItem EXCEPT !.id = "weapon", !.shape = "flat", !.dice = n,
                       !.die = d, !.modifier = m,
                       !.damageType = "slashing", !.striking = r,
                       !.persistentNumber = p,
                       !.persistentType = IF p # 0 THEN "fire" ELSE "",
                       !.splashValue = sp, !.traits = t, !.strMod = str,
                       !.bonusNumber = b] :
        n \in 0..MaxDice, d \in WeaponDies, m \in (-MaxMod)..MaxMod,
        r \in 0..MaxStriking, p \in PersistentNumbers, sp \in SplashValues,
        t \in WeaponTraits, str \in StrengthModifiers, b \in BonusNumbers}

WeaponInputs ==
    [item : WeaponItems, isCriticalHit : BOOLEAN, doubleStatic : BOOLEAN]

\* altCritFormula of attemptDirectDamageCalculation: [throws, formula],
\* formula <<>> when the estimator found no base dice.
directFormula(it, crit, ds) ==
    LET sd == syntheticDamageData(it)
    IN  IF sd.throws THEN [throws |-> TRUE, formula |-> <<>>]
        ELSE IF sd.data.base = <<>>
        THEN [throws |-> FALSE, formula |-> <<>>]
        ELSE createAlternativeCriticalFormula(sd.data, crit, ds)

WeaponInit ==
    /\ now = 0
    /\ ticks = 0
    /\ doubleStatic = TRUE
    /\ lastDamageRollData = NoCapture
    /\ lastHostDamageRoll = NoCapture
    /\ Idle
    /\ input \in WeaponInputs
    /\ output = NoOutput
    /\ enabled = TRUE
    /\ buttons = ItemIds
    /\ clicked = NoClick

callParseWeaponDamage ==
    /\ \E f \in {parseWeaponDamage(input.item, input.isCriticalHit)} :
           output' = [fn |-> "parseWeaponDamage", throws |-> f.throws,
                      formula |-> f.formula]
    /\ UNCHANGED <<now, ticks, doubleStatic, lastDamageRollData,
                   lastHostDamageRoll, invocation, input, gate>>

callDirectCalculation ==
    /\ \E f \in {directFormula(input.item, input.isCriticalHit,
                                input.doubleStatic)} :
           output' = [fn |-> "attemptDirectDamageCalculation",
                      throws |-> f.throws, formula |-> f.formula]
    /\ UNCHANGED <<now, ticks, doubleStatic, lastDamageRollData,
                   lastHostDamageRoll, invocation, input, gate>>

WeaponNext ==
    \/ callParseWeaponDamage
    \/ callDirectCalculation

WeaponSpec == WeaponInit /\ [][WeaponNext]_vars

(***************************************************************************)
(* The legacy spell parse on its own, called on a spell with one keyed     *)
(* damage instance whose expression the host's Roll parser has split into  *)
(* terms.  A term is [kind, number, faces, operator]: "dice" (DiceTerm),   *)
(* "num" (NumericTerm), "op" (OperatorTerm) or "paren" (ParentheticalTerm, *)
(* a group).  input = [item, isCriticalHit, doubleStatic].                 *)
(***************************************************************************)
SpellFaces == {4, 6}

SpellOperators == {"+", "-", "*"}

DiceTerm(n, f) == [kind |-> "dice", number |-> n, faces |-> f, operator |-> ""]
NumericTerm(v) == [kind |-> "num", number |-> v, faces |-> 0, operator |-> ""]
OperatorTerm(o) == [kind |-> "op", number |-> 0, faces |-> 0, operator |-> o]
ParentheticalTerm ==
    [kind |-> "paren", number |-> 0, faces |-> 0, operator |-> ""]

\* The operands of an expression.
SpellOperands ==
    {DiceTerm(n, f) : n \in 1..MaxDice, f \in SpellFaces}
        \cup {NumericTerm(v) : v \in 0..MaxMod}
        \cup {ParentheticalTerm}

\* roll.terms of an expression with one, two or three operands.
SpellExpressions ==
    {<<a>> : a \in SpellOperands}
        \cup {<<a, OperatorTerm(o), b>> :
                 a \in SpellOperands, o \in SpellOperators,
                 b \in SpellOperands}
        \cup {<<a, OperatorTerm(o), b, OperatorTerm(q), c>> :
                 a \in SpellOperands, o \in SpellOperators,
                 b \in SpellOperands, q \in SpellOperators,
                 c \in SpellOperands}

\* The damage instances: an expression the host parses, one on which
\* `new Roll` throws, and an instance without a damage string.
SpellInstances ==
    {[has |-> TRUE, throws |-> FALSE, type |-> t, terms |-> x] :
        t \in {"", "fire"}, x \in SpellExpressions}
        \cup {[has |-> TRUE, throws |-> TRUE, type |-> t, terms |-> <<>>] :
                 t \in {"", "fire"}}
        \cup {[has |-> FALSE, throws |-> FALSE, type |-> "fire",
               terms |-> <<>>]}

SpellItems ==
    {[BlankItem EXCEPT !.id = "spell", !.type = "spell", !.category = "",
                       !.shape = "keyed", !.instances = <<d>>] :
        d \in SpellInstances}

SpellInputs ==
    [item : SpellItems, isCriticalHit : BOOLEAN, doubleStatic : BOOLEAN]

SpellInit ==
    /\ now = 0
    /\ ticks = 0
    /\ doubleStatic = TRUE
    /\ lastDamageRollData = NoCapture
    /\ lastHostDamageRoll = NoCapture
    /\ Idle
    /\ input \in SpellInputs
    /\ output = NoOutput
    /\ enabled = TRUE
    /\ buttons = ItemIds
    /\ clicked = NoClick

callParseSpellDamage ==
    /\ \E f \in {parseSpellDamage(input.item, input.isCriticalHit,
                                  input.doubleStatic)} :
           output' = [fn |-> "parseSpellDamage", throws |-> f.throws,
                      formula |-> f.formula]
    /\ UNCHANGED <<now, ticks, doubleStatic, lastDamageRollData,
                   lastHostDamageRoll, invocation, input, gate>>

SpellNext ==
    \/ callParseSpellDamage

SpellSpec == SpellInit /\ [][SpellNext]_vars

(***************************************************************************)
(* Properties of the capture cache.                                        *)
(***************************************************************************)
\* An invocation is running or has just returned.
Invoked == pc # "idle"

\* The tier the invocation entered first.
FirstTier == IF tiers = <<>> THEN "" ELSE tiers[1]

\* The lookup found a capture of the invocation's own item.
LookupSameItem ==
    /\ lookup.captured
    /\ MessageOf(lookup.message).itemId = item

\* The capture the lookup found carries the damage structure.
LookupHasStructure == MessageOf(lookup.message).hasDamage

\* C1: after a normal damage roll for item X has been captured, every Alt
\* Crit invocation for X made less than 30 seconds after it, with no damage
\* roll of another item reported in between, is synthesized from the
\* captured structure (cache tier) - also a second or later invocation: an
\* invocation's own roll and chat post do not displace the capture.
C1_RecentCaptureAlwaysUsed ==
    (Invoked /\ lookup.recent) => FirstTier = "cache"

\* C2, as stated: a lookup for the matching item made at capturedAt + 30000
\* ms (inclusive) or earlier returns the captured entry and the cache tier
\* is used; a lookup at capturedAt + 30001 ms is a Miss.
C2_InclusiveBoundary ==
    (Invoked /\ LookupSameItem /\ LookupHasStructure)
        => (FirstTier = "cache" <=> lookup.age <= FreshnessWindow)

\* C2, amended: a lookup for the matching item made at capturedAt + 29999
\* ms or earlier returns the captured entry and the cache tier is used; a
\* lookup at capturedAt + 30000 ms or later is a Miss (the boundary is
\* exclusive) and the invocation starts with direct calculation.
C2_ExclusiveBoundary ==
    (Invoked /\ LookupSameItem /\ LookupHasStructure)
        => /\ FirstTier = "cache" <=> lookup.age <= FreshnessWindow - 1
           /\ FirstTier = "direct" <=> lookup.age >= FreshnessWindow

\* The cache tier used on a capture that is 29999 ms old.
C2_Witness ==
    /\ pc = "eval"
    /\ LookupSameItem /\ LookupHasStructure
    /\ lookup.age = FreshnessWindow - 1
    /\ tier = "cache"

\* C3: an Alt Crit invocation for item X never synthesizes its formula from
\* a structure captured for an item whose identity differs from X, nor from
\* a capture that has no associated item: every such lookup is a Miss and
\* the invocation proceeds to direct calculation.
C3_OtherItemIsMiss ==
    (Invoked /\ lookup.captured /\ MessageOf(lookup.message).itemId # item)
        => /\ FirstTier = "direct"
           /\ \A i \in 1..Len(tiers) : tiers[i] # "cache"

\* A fresh capture of the club's damage roll, with its structure, found by
\* an invocation for the rapier, which goes on with direct calculation.
C3_Witness ==
    /\ pc = "eval"
    /\ item = "rapier"
    /\ lookup.captured /\ lookup.message = "clubDamage"
    /\ lookup.age < FreshnessWindow
    /\ tier = "direct"

\* C4: the single cache slot changes exactly when the host reports a
\* created chat entry whose first roll is a damage roll: it is then
\* overwritten unconditionally with that entry and the current time (last
\* write wins, also when the new entry belongs to a different item or to
\* no item); a created chat entry with no rolls or whose first roll is not
\* a damage roll leaves the slot unchanged, and so does every other step.
C4_SlotWrittenByDamageRollsOnly ==
    [][ /\ \A m \in HostMessages :
              createChatMessage(m) =>
                  lastDamageRollData' =
                      IF MessageOf(m).rollClass = "DamageRoll"
                      THEN [set |-> TRUE, message |-> m, timestamp |-> now]
                      ELSE lastDamageRollData
        /\ chatMessageCreated =>
               lastDamageRollData' =
                   [set |-> TRUE, message |-> OwnMessage, timestamp |-> now]
        /\ ~( \/ \E m \in HostMessages : createChatMessage(m)
              \/ chatMessageCreated )
               => UNCHANGED lastDamageRollData
      ]_vars

\* The rapier's capture, still the latest damage roll the host reported,
\* overwritten later by an entry that has no item.
C4_Witness ==
    /\ lastHostDamageRoll.set
    /\ lastHostDamageRoll.message = "rapierDamage"
    /\ lastDamageRollData.set
    /\ MessageOf(lastDamageRollData.message).itemId = ""
    /\ lastDamageRollData.timestamp > lastHostDamageRoll.timestamp

(***************************************************************************)
(* Properties of the orchestrator.                                         *)
(***************************************************************************)
\* C5, as stated: within one invocation the tiers are tried in the fixed
\* order cache -> direct calculation -> legacy: direct calculation is
\* entered only after a cache miss/stale lookup, and the legacy tier is
\* entered only after the direct-calculation estimator was attempted and
\* failed in that same invocation.
C5_LegacyOnlyAfterDirect ==
    \A i \in 1..Len(tiers) :
        /\ tiers[i] = "direct" => i = 1
        /\ tiers[i] = "legacy" =>
               \E j \in 1..(i - 1) : tiers[j] = "direct"

\* C5, amended: an invocation starts with the cache tier on a fresh
\* matching capture that carries the damage structure and with direct
\* calculation otherwise; direct calculation is never entered after the
\* cache tier; the legacy tier is entered only after the tier before it
\* failed, which is direct calculation or - when the cache tier throws (no
\* component synthesized, a rejected evaluation, a rejected post) - the
\* cache tier itself, direct calculation being skipped; no tier is entered
\* after one that posted.
C5_LegacyAfterAnyFailedTier ==
    /\ Invoked =>
           /\ tiers # <<>>
           /\ tiers[1] \in {"cache", "direct"}
           /\ tiers[1] = "cache" <=>
                  /\ LookupSameItem /\ LookupHasStructure
                  /\ lookup.age < FreshnessWindow
           /\ tier = tiers[Len(tiers)]
    /\ \A i \in 2..Len(tiers) : tiers[i] = "legacy"
    /\ \A i \in 1..Len(posts) : posts[i].tier = tiers[Len(tiers)]
    /\ Len(posts) <= 1

\* The legacy tier entered straight after the cache tier.
C5_Witness ==
    /\ pc = "eval"
    /\ tiers = <<"cache", "legacy">>
    /\ "cache" \in rejected

\* C6: when there is no fresh capture for the item, the estimator finds no
\* base dice and the legacy parse yields no formula (the item describes no
\* damage), the invocation ends with a user-visible warning, evaluates no
\* roll and creates zero chat posts.
C6_NoDamageFoundWarns ==
    ( /\ pc = "done"
      /\ ~(LookupSameItem /\ lookup.age < FreshnessWindow)
      /\ ItemOf(item).shape = "none" )
        => /\ warnings = 1
           /\ errors = 0
           /\ rolled = 0
           /\ posts = <<>>

\* An invocation for the torch that returned after its warning, a damage
\* roll of another item being in the slot.
C6_Witness ==
    /\ pc = "done"
    /\ item = "torch"
    /\ lookup.captured
    /\ tiers = <<"direct", "legacy">>
    /\ warnings = 1

\* C7, as stated: if the host's roll evaluation call rejects during an
\* invocation, in whichever tier it happens, the invocation surfaces a
\* user-visible error and creates no chat post.
C7_RejectionAlwaysSurfaces ==
    (pc = "done" /\ rejected # {}) => (errors >= 1 /\ posts = <<>>)

\* C7, amended: if the host's roll evaluation call rejects in the legacy
\* tier, the invocation surfaces a user-visible error and creates no chat
\* post; a rejection in the cache tier or in the direct-calculation tier
\* makes the invocation enter the legacy tier, and no error is surfaced
\* unless the legacy tier fails too.
C7_LegacyRejectionSurfaces ==
    /\ (pc = "done" /\ "legacy" \in rejected)
           => (errors = 1 /\ posts = <<>>)
    /\ (Invoked /\ rejected \cap {"cache", "direct"} # {})
           => /\ tiers[Len(tiers)] = "legacy"
              /\ (pc # "done" => errors = 0)

\* An evaluation rejected in the legacy tier after one rejected in the
\* direct-calculation tier: one error, no post.
C7_Witness ==
    /\ pc = "done"
    /\ rejected = {"direct", "legacy"}
    /\ errors = 1
    /\ posts = <<>>

\* C8: every chat post produced through the direct-calculation tier or
\* through the legacy tier carries the informational missing-modifiers
\* annotation in its provenance text.
C8_FallbackPostsCarryNote ==
    \A i \in 1..Len(posts) :
        posts[i].tier \in {"direct", "legacy"} => posts[i].note

(***************************************************************************)
(* Properties of the synthesizers.                                         *)
(***************************************************************************)
\* C9: for all (diceCount, dieSize, flatModifier) with diceCount >= 1, the
\* critical expression of createDamageFormula and of the base part of
\* createAlternativeCriticalFormula has maximum possible value
\* 2*diceCount*dieSize + flatModifier and minimum possible value
\* diceCount + diceCount*dieSize + flatModifier: it is diceCount dice of
\* dieSize plus the flat bonus diceCount*dieSize plus flatModifier.
C9_CriticalExtremes ==
    ( /\ input.num >= 1
      /\ input.die # ""
      /\ \/ output.fn = "createDamageFormula"
         \/ (output.fn = "createAlternativeCriticalFormula"
                /\ input.isCriticalHit) )
        => /\ ~output.throws
           /\ MaxOf(output.formula)
                = 2 * input.num * DieTable(input.die) + input.mod
           /\ MinOf(output.formula)
                = input.num + input.num * DieTable(input.die) + input.mod
           /\ DiceOf(output.formula) = input.num
           /\ \E i \in 1..Len(output.formula) :
                  output.formula[i] = Dice(input.num, DieTable(input.die))
           /\ FlatOf(output.formula)
                = input.num * DieTable(input.die) + input.mod

\* 3d8-2 synthesized as a critical: at most 46, at least 25.
C9_Witness ==
    /\ output.fn = "createDamageFormula"
    /\ input.num = MaxDice /\ input.die = "d8" /\ input.mod = -MaxMod
    /\ MaxOf(output.formula) = 2 * MaxDice * 8 - MaxMod
    /\ MinOf(output.formula) = MaxDice + MaxDice * 8 - MaxMod

\* The largest value of the source of a rich synthesis when it is not a
\* critical: the base entries and the modifiers that apply.
RichSourceMax(damageData) ==
    SumSeq([i \in 1..Len(damageData.base) |->
               damageData.base[i].diceNumber
                   * DieTable(damageData.base[i].dieSize)
               + damageData.base[i].modifier])
    + SumSeq([i \in 1..Len(damageData.modifiers) |->
               IF damageData.modifiers[i].enabled
                     /\ ~damageData.modifiers[i].ignored
               THEN damageData.modifiers[i].modifier ELSE 0])

\* The largest value of the damage an item describes: n dice of s plus m,
\* or the dice and numbers of its damage instances.
ItemSourceMax(it) ==
    IF it.shape = "flat"
    THEN it.dice * DieTable(it.die) + it.modifier
    ELSE SumSeq([i \in 1..Len(it.instances) |->
             SumSeq([j \in 1..Len(it.instances[i].terms) |->
                 IF it.instances[i].terms[j].kind = "dice"
                 THEN it.instances[i].terms[j].number
                          * it.instances[i].terms[j].faces
                 ELSE it.instances[i].terms[j].number])])

\* C10: for all inputs and in every tier (cache, direct calculation, legacy
\* weapon, legacy spell, legacy other item), a non-critical synthesis never
\* adds a maximum-value bonus and never doubles the flat modifier: a source
\* with n dice of size s and flat modifier m yields n dice of s plus m
\* counted once, whatever the doubleStatic setting is.
C10_NonCriticalCountsOnce ==
    (pc = "eval" /\ ~isCriticalHit)
        => MaxOf(Flatten(parts))
             = IF tier = "cache"
               THEN RichSourceMax(MessageOf(lookup.message).damage)
               ELSE IF tier = "direct"
               THEN RichSourceMax(syntheticDamageData(ItemOf(item)).data)
               ELSE ItemSourceMax(ItemOf(item))

(***************************************************************************)
(* Properties of the button and of the outcome flag.                       *)
(***************************************************************************)
\* No dice term of f is followed by "+" and the largest value of its dice.
NoMaxBonus(f) ==
    \A i \in 1..Len(f) :
        (f[i].k = "dice" /\ i + 2 <= Len(f))
            => ~(f[i + 1] = Sym("+") /\ f[i + 2] = Num(f[i].n * f[i].s))

C13_DisabledInvocationIsInert ==
    (Invoked /\ ~clicked.enabled) => (rolled = 0 /\ posts = <<>>)

(***************************************************************************)
(* Properties of the rich synthesizer's entries.                           *)
(***************************************************************************)
\* What SteadyBase alone is synthesized to.
SteadyBaseFormula(crit) ==
    IF crit
    THEN <<Sym("{"), Sym("("), Dice(1, 4), Sym("+"), Num(4), Sym(")"),
           Tag("slashing"), Sym("}")>>
    ELSE <<Sym("{"), Sym("("), Dice(1, 4), Sym(")"), Tag("slashing"),
           Sym("}")>>

\* The component that follows the base component in `{base,component}`,
\* <<>> when there is none.
EntryComponent(f) ==
    IF Len(f) < 2 THEN <<>>
    ELSE LET pieces == SplitComma(SubSeq(f, 2, Len(f) - 1))
         IN  IF Len(pieces) >= 2 THEN pieces[2] ELSE <<>>

\* The modifiers entry of the input is one the synthesizer is to render.
ModifierEntryApplies ==
    /\ output.fn = "modifierEntry"
    /\ input.enabled /\ ~input.ignored /\ input.mod # 0

\* The extra-dice entry of the input is one the synthesizer is to render.
DiceEntryApplies ==
    /\ output.fn = "diceEntry"
    /\ input.enabled /\ ~input.ignored
    /\ input.critical /\ input.isCriticalHit
    /\ input.num >= 1 /\ input.die # ""

\* C14: entries of a rich damage structure with enabled == false or
\* ignored == true never contribute to the synthesized formula: for every
\* modifiers entry and every extra-dice entry, whatever such an entry's
\* value, dice or type is, the output is that of the structure without the
\* entry, on critical and non-critical alike.
C14_DisabledEntriesExcluded ==
    ( /\ output.fn \in {"modifierEntry", "diceEntry"}
      /\ (~input.enabled \/ input.ignored) )
        => /\ ~output.throws
           /\ output.formula = SteadyBaseFormula(input.isCriticalHit)

\* An enabled but ignored modifier of the largest value, on a critical with
\* doubleStatic on, left out of the formula.
C14_Witness ==
    /\ output.fn = "modifierEntry"
    /\ input.enabled /\ input.ignored
    /\ input.mod = MaxMod
    /\ input.isCriticalHit /\ input.doubleStatic
    /\ output.formula = SteadyBaseFormula(TRUE)

\* f holds the tag t.
HasTag(f, t) == \E i \in 1..Len(f) : f[i] = Tag(t)

\* C15: rich-structure synthesis preserves every component's damage type
\* and category: a base component whose category is persistent, splash or
\* precision is rendered with that category tag and its own damage type,
\* exactly as modifier entries and extra-dice entries are.
C15_CategoryAndTypePreserved ==
    LET type == IF input.damageType # "" THEN input.damageType
                ELSE "untyped"
    IN  /\ (output.fn = "createAlternativeCriticalFormula"
               /\ ~output.throws)
              => /\ HasTag(output.formula, type)
                 /\ input.category # ""
                        => HasTag(output.formula, input.category)
        /\ (ModifierEntryApplies \/ DiceEntryApplies)
              => /\ HasTag(EntryComponent(output.formula), type)
                 /\ input.category # ""
                        => HasTag(EntryComponent(output.formula),
                                  input.category)

\* f is `((...)[cat])[type]`.
DoubleNest(f, cat, type) ==
    /\ Len(f) >= 6
    /\ f[1] = Sym("(") /\ f[2] = Sym("(")
    /\ SubSeq(f, Len(f) - 3, Len(f))
         = <<Sym(")"), Tag(cat), Sym(")"), Tag(type)>>

\* f is `(v[cat])[type]` for a number v.
SingleNest(f, cat, type) ==
    /\ Len(f) = 5
    /\ f[1] = Sym("(") /\ f[2].k = "num"
    /\ SubSeq(f, 3, 5) = <<Tag(cat), Sym(")"), Tag(type)>>

\* The input asks for a persistent fire component.
PersistentFire == input.category = "persistent" /\ input.damageType = "fire"

\* C16, as stated: a component with category persistent and damage type
\* fire always renders with the fixed nesting ((...)[persistent])[fire] -
\* category group innermost, damage type outermost, never the reverse -
\* for every categorized component produced by the flat-shape synthesizer
\* and by the rich-structure synthesizer (modifier entries and extra dice).
C16_DoubleNestEverywhere ==
    PersistentFire =>
        /\ output.fn \in {"createDamageFormula", "createStandardDamageFormula"}
              => DoubleNest(output.formula, "persistent", "fire")
        /\ DiceEntryApplies
              => DoubleNest(EntryComponent(output.formula),
                            "persistent", "fire")
        /\ ModifierEntryApplies
              => DoubleNest(EntryComponent(output.formula),
                            "persistent", "fire")

\* C16, amended: a component with category persistent and damage type fire
\* always renders with the category tag innermost and the damage type tag
\* outermost, never the reverse: as ((...)[persistent])[fire] by the
\* flat-shape synthesizer and for the extra dice of the rich-structure
\* synthesizer, and as (v[persistent])[fire], the value v without
\* parentheses of its own, for the modifier entries of the rich-structure
\* synthesizer.
C16_CategoryInsideType ==
    PersistentFire =>
        /\ output.fn \in {"createDamageFormula", "createStandardDamageFormula"}
              => DoubleNest(output.formula, "persistent", "fire")
        /\ DiceEntryApplies
              => DoubleNest(EntryComponent(output.formula),
                            "persistent", "fire")
        /\ ModifierEntryApplies
              => SingleNest(EntryComponent(output.formula),
                            "persistent", "fire")

\* A persistent fire modifier of 2 on a critical with doubleStatic on,
\* rendered as (4[persistent])[fire].
C16_Witness ==
    /\ ModifierEntryApplies
    /\ PersistentFire
    /\ input.mod = 2 /\ input.isCriticalHit /\ input.doubleStatic
    /\ EntryComponent(output.formula)
         = <<Sym("("), Num(4), Tag("persistent"), Sym(")"), Tag("fire")>>

(***************************************************************************)
(* Properties of the weapon synthesizers.                                  *)
(***************************************************************************)
\* The index of the first dice term of f.
FirstDice(f) ==
    CHOOSE i \in 1..Len(f) :
        /\ f[i].k = "dice"
        /\ \A j \in 1..(i - 1) : f[j].k # "dice"

\* The terms of the base component: from its dice to the parenthesis that
\* closes them.
BaseGroup(f) ==
    LET i == FirstDice(f)
        close == CHOOSE c \in i..Len(f) :
                     /\ f[c] = Sym(")")
                     /\ \A j \in i..(c - 1) : f[j] # Sym(")")
    IN  SubSeq(f, i, close - 1)

\* The flat terms of the base component of a critical formula beyond the
\* largest value of its dice.
BaseStatic(f) == FlatOf(BaseGroup(f)) - f[FirstDice(f)].n * f[FirstDice(f)].s

\* A weapon call returned a formula.
WeaponFormula ==
    /\ output.fn \in {"parseWeaponDamage", "attemptDirectDamageCalculation"}
    /\ ~output.throws
    /\ output.formula # <<>>

\* C11: on a critical, the doubleStatic setting decides whether an item's
\* static damage modifier m is doubled: with the setting true the
\* synthesized expression for 1d6+4 is 1d6+6+8 (static contribution 2m),
\* with the setting false it is 1d6+6+4 (static contribution m), in every
\* tier that synthesizes the item's formula.
C11_DoubleStaticDecides ==
    ( /\ WeaponFormula
      /\ input.isCriticalHit
      /\ input.item.persistentNumber = 0
      /\ input.item.splashValue = 0 )
        => BaseStatic(output.formula)
             = IF input.doubleStatic THEN 2 * input.item.modifier
               ELSE input.item.modifier

\* C17: in the weapon flat-shape path, persistent damage of amount n and
\* type t is rendered as its own component ((n)[persistent])[t] (and splash
\* damage as its own [splash] component), with no maximum-value bonus, and
\* the amount n contributes to the total output exactly once: it is not
\* also added to the base component's flat modifier.
C17_PersistentOwnComponent ==
    ( /\ output.fn = "parseWeaponDamage"
      /\ ~output.throws /\ output.formula # <<>> )
        => LET pieces == SplitComma(output.formula)
               it == input.item
               bonus == IF input.isCriticalHit
                        THEN FlatOf(BaseGroup(output.formula))
                                 - BaseStatic(output.formula)
                        ELSE 0
           IN  /\ it.persistentNumber # 0 =>
                      \E j \in 1..Len(pieces) :
                          pieces[j] = <<Sym("("), Sym("("),
                                        Num(it.persistentNumber), Sym(")"),
                                        Tag("persistent"), Sym(")"),
                                        Tag(it.persistentType)>>
               /\ it.splashValue # 0 =>
                      \E j \in 1..Len(pieces) :
                          /\ HasTag(pieces[j], "splash")
                          /\ FlatOf(pieces[j]) = it.splashValue
               /\ FlatOf(BaseGroup(output.formula)) - bonus
                    = weaponTotalModifier(
                          [it EXCEPT !.persistentNumber = 0,
                                     !.splashValue = 0])

\* C18: for a weapon with n base dice of size s and a striking value r,
\* the rune dice are folded into the same single base component: the
\* emitted base expression rolls n + r dice with no separate rune
\* component, its critical maximum-value bonus is (n + r) * s, and the
\* critical expression differs from the non-critical expression for the
\* same weapon only by that bonus (the same number of dice is rolled in
\* both).
C18_StrikingFolded ==
    ( /\ output.fn = "parseWeaponDamage"
      /\ ~output.throws /\ output.formula # <<>> )
        => LET f == output.formula
               it == input.item
               all == it.dice + it.striking
           IN  /\ Len(SplitComma(f)) = 1
               /\ f[FirstDice(f)] = Dice(all, DieTable(it.die))
               /\ DiceOf(f) = all
               /\ IF input.isCriticalHit
                  THEN f[FirstDice(f) + 2] = Num(all * DieTable(it.die))
                  ELSE MaxOf(f) = all * DieTable(it.die)
                                    + weaponTotalModifier(it)

\* The faces of the die a deadly trait token names, 0 for any other trait.
DeadlyFaces(trait) ==
    CASE trait = "deadly-d6" -> 6
      [] trait = "deadly-d8" -> 8
      [] trait = "deadly-d10" -> 10
      [] OTHER -> 0

IsDeadlyToken(trait) == DeadlyFaces(trait) # 0

\* C19: for a weapon carrying a trait token deadly-dX, direct calculation
\* produces one extra-dice entry per such token (critical-only, 1 die of
\* size X, inheriting the base damage type); on a critical it is rendered
\* as one ordinary die with no maximum-value bonus and the base component's
\* bonus stays baseDice * baseDie, and on a non-critical it is not rendered
\* at all.
C19_DeadlyDirect ==
    ( /\ output.fn = "attemptDirectDamageCalculation"
      /\ input.item.dice >= 1 /\ input.item.die # "" )
        => LET it == input.item
               f == output.formula
               deadly == SelectSeq(it.traits, IsDeadlyToken)
               k == Len(deadly)
               pieces == SplitComma(SubSeq(f, 2, Len(f) - 1))
               others == 1 + (IF it.strMod > 0 THEN 1 ELSE 0)
           IN  /\ ~output.throws
               /\ f[1] = Sym("{") /\ f[Len(f)] = Sym("}")
               /\ IF input.isCriticalHit
                  THEN /\ Len(pieces) = others + k
                       /\ \A j \in 1..k :
                              pieces[others + j]
                                = <<Sym("("), Dice(1, DeadlyFaces(deadly[j])),
                                    Sym(")"), Tag(it.damageType)>>
                       /\ SubSeq(pieces[1], 1, 4)
                            = <<Sym("("), Dice(it.dice, DieTable(it.die)),
                                Sym("+"), Num(it.dice * DieTable(it.die))>>
                       /\ DiceOf(f) = it.dice + k
                  ELSE /\ Len(pieces) = others
                       /\ DiceOf(f) = it.dice

\* 2d6 with deadly-d8 and deadly-d10 on a critical: four dice, a bonus of
\* 12, and the two deadly dice as the last components.
C19_Witness ==
    /\ output.fn = "attemptDirectDamageCalculation"
    /\ input.isCriticalHit
    /\ input.item.dice = 2 /\ input.item.die = "d6"
    /\ input.item.traits = <<"deadly-d8", "deadly-d10">>
    /\ DiceOf(output.formula) = 4
    /\ BaseGroup(output.formula)[3] = Num(12)

\* C20: every tier that emits a formula for a critical with a weapon
\* carrying deadly-dX (cache, direct calculation and legacy weapon parse)
\* includes the extra deadly die component in what is rolled; no tier emits
\* a critical formula for such a weapon without it.
C20_DeadlyInEveryTier ==
    (pc = "eval" /\ isCriticalHit /\ ItemOf(item).type = "weapon")
        => \A t \in 1..Len(ItemOf(item).traits) :
               IsDeadlyToken(ItemOf(item).traits[t]) =>
                   \E i \in 1..Len(parts) : \E j \in 1..Len(parts[i]) :
                       parts[i][j]
                         = Dice(1, DeadlyFaces(ItemOf(item).traits[t]))

(***************************************************************************)
(* Properties of one invocation as a whole.                                *)
(***************************************************************************)
\* C21: the per-invocation state machine is linear with no loops back:
\* whatever step throws or fails, no tier - in particular the legacy flat
\* parse - is entered more than once during a single invocation.
C21_NoTierEnteredTwice ==
    \A i \in 1..Len(tiers) : \A j \in 1..Len(tiers) :
        i # j => tiers[i] # tiers[j]

C23_OrdinaryExtraDiceAlwaysRolled ==
    ( /\ output.fn = "diceEntry"
      /\ input.enabled /\ ~input.ignored
      /\ input.num >= 1 /\ input.die # "" )
        => LET rendered ==
                   \E i \in 1..Len(EntryComponent(output.formula)) :
                       EntryComponent(output.formula)[i]
                         = Dice(input.num, DieTable(input.die))
           IN  /\ ~input.critical => rendered
               /\ input.critical => (rendered <=> input.isCriticalHit)

\* C24: a base component that has no dice (diceCount == 0, or no die size)
\* but a nonzero flat modifier is normalized to a flat-modifier component:
\* its modifier value appears in the synthesized expression with the
\* component's damage type instead of the component being dropped.
C24_FlatOnlyBaseKept ==
    ( /\ output.fn \in {"createAlternativeCriticalFormula",
                        "createDamageFormula", "createStandardDamageFormula"}
      /\ (input.num = 0 \/ input.die = "")
      /\ input.mod # 0 )
        => /\ ~output.throws
           /\ \E i \in 1..Len(output.formula) :
                  output.formula[i] = Num(input.mod)
           /\ HasTag(output.formula,
                     IF input.damageType # "" THEN input.damageType
                     ELSE "untyped")

\* C25: the weapon base-damage flat modifier is the primary modifier field
\* plus the sum of the auxiliary bonus sources present on the item
\* (bonus-damage block, flat-damage-bonus field, numeric bonus fields,
\* per-property bonuses): each source present contributes its value exactly
\* once and each absent source contributes zero.
C25_EachBonusSourceOnce ==
    ( /\ output.fn = "parseWeaponDamage"
      /\ ~output.throws /\ output.formula # <<>>
      /\ input.item.persistentNumber = 0
      /\ input.item.splashValue = 0 )
        => LET f == output.formula
               it == input.item
               bonus == IF input.isCriticalHit
                        THEN f[FirstDice(f)].n * f[FirstDice(f)].s
                        ELSE 0
           IN  FlatOf(BaseGroup(f)) - bonus
                 = it.modifier
                   + (IF it.bonusDamage = "object" THEN it.bonusDamageValue
                      ELSE 0)
                   + it.flatDamageBonus
                   + it.damageBonus
                   + it.bonusObjDamage + it.bonusObjFlat
                   + it.bonusNumber
                   + SumSeq(it.properties)

(***************************************************************************)
(* Properties of the legacy spell parse.                                   *)
(***************************************************************************)
\* The damage instance of the spell the parse was called on.
SpellInstance == input.item.instances[1]

SpellType == IF SpellInstance.type # "" THEN SpellInstance.type ELSE "untyped"

\* The spell parse was called on an instance the host split into terms.
SpellParsed ==
    /\ output.fn = "parseSpellDamage"
    /\ SpellInstance.has /\ ~SpellInstance.throws

\* The conservative default component: one d6 of the entry's damage type.
DefaultComponent(crit) ==
    IF crit
    THEN <<Sym("("), Dice(1, 6), Sym("+"), Num(6), Sym("+"), Num(0),
           Sym(")"), Tag(SpellType)>>
    ELSE <<Sym("("), Dice(1, 6), Sym("+"), Num(0), Sym(")"), Tag(SpellType)>>

\* The expression holds an operator other than "+", or a group.
HasOtherOperator ==
    \E i \in 1..Len(SpellInstance.terms) :
        \/ SpellInstance.terms[i].kind = "paren"
        \/ /\ SpellInstance.terms[i].kind = "op"
           /\ SpellInstance.terms[i].operator # "+"

\* C26: when an embedded die-expression string of a keyed multi-instance
\* entry contains an operator other than simple addition (subtraction,
\* multiplication, division, grouping), decomposition fails and that entry
\* is synthesized as the single conservative default component (one d6 of
\* the entry's damage type) instead of being decomposed term by term.
C26_OtherOperatorGivesDefault ==
    ( /\ output.fn = "parseSpellDamage"
      /\ SpellInstance.has
      /\ (SpellInstance.throws \/ HasOtherOperator) )
        => /\ ~output.throws
           /\ output.formula = DefaultComponent(input.isCriticalHit)

IsDiceTerm(term) == term.kind = "dice"

IsNumericTerm(term) == term.kind = "num"

\* A term for which the parse pushes a part.
IsEmittedTerm(term) ==
    term.kind = "dice" \/ (term.kind = "num" /\ term.number # 0)

\* The components of the returned formula, << >> for null.
SpellPieces ==
    IF output.formula = <<>> THEN <<>> ELSE SplitComma(output.formula)

\* piece has no dice.
IsFlatPiece(piece) == DiceOf(piece) = 0

\* The value a numeric term v is emitted with.
EmittedValue(v) ==
    IF input.isCriticalHit /\ input.doubleStatic THEN 2 * v ELSE v

\* piece is the component of dice term `term`.
IsDicePieceOf(piece, term) ==
    /\ DiceOf(piece) = term.number
    /\ \E j \in 1..Len(piece) : piece[j] = Dice(term.number, term.faces)
    /\ FlatOf(piece)
         = IF input.isCriticalHit THEN term.number * term.faces ELSE 0
    /\ piece[Len(piece)] = Tag(SpellType)

\* C27, as stated: decomposing an embedded die-expression yields each dice
\* term as a (count, size) pair in left-to-right order, and all standalone
\* numeric terms of that expression summed into a single flat modifier (one
\* flat contribution per expression, not one per numeric term).
C27_NumericTermsSummed ==
    (SpellParsed /\ ~HasOtherOperator)
        => LET dice == SelectSeq(SpellInstance.terms, IsDiceTerm)
               nums == SelectSeq(SpellInstance.terms, IsNumericTerm)
               total == SumSeq([i \in 1..Len(nums) |-> nums[i].number])
               dicePieces == SelectSeq(SpellPieces, LAMBDA p : ~IsFlatPiece(p))
               flatPieces == SelectSeq(SpellPieces, IsFlatPiece)
           IN  /\ Len(dicePieces) = Len(dice)
               /\ \A i \in 1..Len(dice) : IsDicePieceOf(dicePieces[i], dice[i])
               /\ Len(flatPieces) = IF total # 0 THEN 1 ELSE 0
               /\ \A i \in 1..Len(flatPieces) :
                      flatPieces[i] = <<Num(EmittedValue(total)),
                                        Tag(SpellType)>>

\* C27, amended: decomposing an embedded die-expression yields one
\* component per dice term, with its (count, size), and one flat component
\* per nonzero standalone numeric term, with that term's own value (twice
\* the value on a critical with doubleStatic on), all in the left-to-right
\* order of the terms; the numeric terms are not summed into one flat
\* modifier, and operators and groups contribute nothing.
C27_OneComponentPerTerm ==
    SpellParsed
        => LET emitted == SelectSeq(SpellInstance.terms, IsEmittedTerm)
           IN  /\ ~output.throws
               /\ Len(SpellPieces) = Len(emitted)
               /\ \A i \in 1..Len(emitted) :
                      IF emitted[i].kind = "dice"
                      THEN IsDicePieceOf(SpellPieces[i], emitted[i])
                      ELSE SpellPieces[i]
                             = <<Num(EmittedValue(emitted[i].number)),
                                 Tag(SpellType)>>

\* "1d6 + 1 + 2" fire on a critical with doubleStatic on: the die with its
\* bonus, then 2 and 4 as two flat components.
C27_Witness ==
    /\ SpellParsed
    /\ input.isCriticalHit /\ input.doubleStatic
    /\ SpellInstance.terms
         = <<DiceTerm(1, 6), OperatorTerm("+"), NumericTerm(1),
             OperatorTerm("+"), NumericTerm(2)>>
    /\ Len(SpellPieces) = 3
    /\ SpellPieces[2] = <<Num(2), Tag(SpellType)>>
    /\ SpellPieces[3] = <<Num(4), Tag(SpellType)>>

(***************************************************************************)
(* Properties of the host calls of an invocation.                          *)
(***************************************************************************)
\* C28: in the legacy tier the dice-evaluation calls for the synthesized
\* expressions are issued as one batch and their results are recombined
\* positionally: for every interleaving of completion orders the posted
\* roll list has exactly one roll per formula part, in the order of the
\* formula parts, and the chat post happens only after all evaluations have
\* completed.
C28_LegacyBatchPositional ==
    tier = "legacy" =>
        /\ pc = "eval" =>
               /\ posts = <<>>
               /\ Len(rolls) = Len(parts)
               /\ pending \subseteq 1..Len(parts)
               /\ \A i \in 1..Len(parts) :
                      rolls[i] = IF i \in pending THEN <<>> ELSE parts[i]
        /\ pc = "post" =>
               /\ posts = <<>>
               /\ pending = {}
               /\ rolls = parts
        /\ \A i \in 1..Len(posts) :
               /\ Len(posts[i].rolls) = Len(parts)
               /\ \A j \in 1..Len(parts) : posts[i].rolls[j] = parts[j]

\* The fireball's two expressions in the legacy tier, the second evaluated
\* while the first is still in flight.
C28_Witness ==
    /\ pc = "eval"
    /\ tier = "legacy"
    /\ item = "fireball"
    /\ Len(parts) = 2
    /\ pending = {1}
    /\ rolls[2] = parts[2]

\* The number of user-visible outcomes of the invocation so far.
Outcomes_Shown == Len(posts) + warnings + errors

\* C29: every invocation whose host calls resolve or reject eventually
\* terminates with exactly one user-visible outcome - one chat post, or one
\* warning, or one error notification - and never creates more than one
\* chat post, whichever tiers are traversed and whichever step throws.
C29_ExactlyOneOutcome ==
    /\ [](pc = "done" => Outcomes_Shown = 1)
    /\ [](pc # "done" => Outcomes_Shown = 0)
    /\ [](Len(posts) <= 1)
    /\ (Invoked ~> pc = "done")

\* An invocation for the club that ends with one error after the direct
\* tier's evaluation was rejected and the legacy parse threw twice.
C29_Witness ==
    /\ pc = "done"
    /\ item = "club"
    /\ tiers = <<"direct", "legacy", "legacy">>
    /\ errors = 1 /\ warnings = 0 /\ posts = <<>>

\* What the lookup of the invocation found was a hit.
LookupHit ==
    /\ LookupSameItem /\ LookupHasStructure
    /\ lookup.age < FreshnessWindow

\* The formulas tier t hands to the roll engine for the invocation, as
\* fixed by what its lookup found and by its item, with doubleStatic = ds.
FormulasAtStart(t, ds) ==
    IF t = "cache"
    THEN <<createAlternativeCriticalFormula(
               MessageOf(lookup.message).damage, isCriticalHit, ds).formula>>
    ELSE IF t = "direct"
    THEN <<createAlternativeCriticalFormula(
               syntheticDamageData(ItemOf(item)).data, isCriticalHit,
               ds).formula>>
    ELSE SplitComma(legacyDamageFormula(ItemOf(item), isCriticalHit,
                                        ds).formula)

\* C30: the tier and formula of an invocation are fixed by the cache slot
\* as it was when the invocation started: a capture recorded by the
\* createChatMessage hook while the invocation is suspended on a roll
\* evaluation or chat post does not change the formula that invocation
\* rolls or posts.
C30_FixedAtInvocationStart ==
    Invoked =>
        /\ FirstTier = IF LookupHit THEN "cache" ELSE "direct"
        /\ \A i \in 2..Len(tiers) : tiers[i] = "legacy"
        /\ pc \in {"eval", "post"} =>
               \E ds \in BOOLEAN : parts = FormulasAtStart(tier, ds)
        /\ \A i \in 1..Len(posts) :
               \E ds \in BOOLEAN :
                   posts[i].rolls = FormulasAtStart(posts[i].tier, ds)

\* The rapier's invocation about to post the formula of the rapier's
\* capture, the club's damage roll having taken the slot meanwhile.
C30_Witness ==
    /\ pc = "post"
    /\ item = "rapier"
    /\ tier = "cache"
    /\ lookup.message = "rapierDamage"
    /\ lastDamageRollData.message = "clubDamage"
    /\ parts = FormulasAtStart("cache", doubleStatic)

====
